---------------------------- MODULE Spec2Model ----------------------------
(***************************************************************************)
(* A model of libp2ep (pay-to-endpoint): the typed transaction pipeline of *)
(* src/src/common.rs, the receiver FSM of src/src/server.rs, the sender    *)
(* FSM of src/src/client.rs, the RPC loop of src/src/jsonrpc.rs and the    *)
(* listener loop of Server::mainloop.                                       *)
(*                                                                         *)
(* One endpoint is modelled at a time (variable role); its peer and its    *)
(* oracles are the environment: every read of a line, every oracle answer  *)
(* and every write outcome is drawn from a small set.                      *)
(*                                                                         *)
(* Indices (vout, positions, input indices) are 0-based as in the source;  *)
(* sequences are TLA+ sequences, so element i of a Vec v is v[i + 1].      *)
(***************************************************************************)
EXTENDS Integers, Sequences, FiniteSets, TLC

(***************************************************************************)
(* Bounds of the model                                                     *)
(***************************************************************************)
\* connections offered to the listener during one Server::mainloop
MaxSessions == 2
\* lines one session's RPC loop reads
MaxFrames == 4
\* messages handed to an FSM that is driven on its own
MaxCalls == 4
\* the largest receiver_input_index a FinalTransactionMeta is drawn with
MaxIndex == 3

(***************************************************************************)
(* Program constants                                                       *)
(***************************************************************************)
VERSION == "1.0"
BTC == 100000000
\* 21_000_000 * BTC in the source; reduced to fit 32-bit integers, it
\* is only ever compared for equality
ProofOutputValue == 21 * BTC
\* TxIn.sequence 0xFFFF_FFFF, only ever compared for equality
SeqFinal == "0xFFFFFFFF"
\* the `fees` the sender fixes
ClientFees == 5000
\* thread_rng().gen_range(0, 100)
NPositions == 100
\* u64::MAX, reduced to the largest integer the model's arithmetic holds; the
\* amounts of the chain are chosen against it
U64Max == 2147483647

\* a + b does not fit a u64
Overflows(a, b) == a > U64Max - b
\* a + b modulo 2^64, what `+=` yields in a build without overflow checks
WrappingAdd(a, b) == IF Overflows(a, b) THEN a - (U64Max - b) - 1 ELSE a + b

(***************************************************************************)
(* Generic helpers                                                         *)
(***************************************************************************)
\* an insert that appends whatever the index
InsertLast(s, i, x) == Append(s, x)

\* Vec::insert(i, x) for 0 <= i <= len
Insert(s, i, x) == SubSeq(s, 1, i) \o <<x>> \o SubSeq(s, i + 1, Len(s))

\* Vec::remove(i)
RemoveAt(s, i) == SubSeq(s, 1, i) \o SubSeq(s, i + 2, Len(s))


(***************************************************************************)
(* Scripts, outpoints, transactions                                        *)
(***************************************************************************)
Script(kind, h) == [kind |-> kind, h |-> h]
EmptyScript == Script("empty", "")
P2wpkh(k) == Script("p2wpkh", k)

\* Script::is_v0_p2wpkh
IsV0P2wpkh(s) == s.kind = "p2wpkh"
\* Script::is_empty
ScriptIsEmpty(s) == s.kind = "empty"

OutPoint(txid, vout) == [txid |-> txid, vout |-> vout]
TxOut(value, script) == [value |-> value, script_pubkey |-> script]
TxIn(po, seq, sig, wit) ==
    [previous_output |-> po, sequence |-> seq, script_sig |-> sig, witness |-> wit]
Tx(ver, lock, ins, outs) ==
    [version |-> ver, lock_time |-> lock, input |-> ins, output |-> outs]

\* OutPoint::default() of TxIn::default(): the null outpoint
NoTx == Tx(0, 0, <<>>, <<>>)

\* Transaction::txid(): the hash of the serialization without witnesses
Txid(tx) ==
    [version |-> tx.version,
     lock_time |-> tx.lock_time,
     input |-> [j \in 1..Len(tx.input) |->
                   [previous_output |-> tx.input[j].previous_output,
                    sequence |-> tx.input[j].sequence,
                    script_sig |-> tx.input[j].script_sig]],
     output |-> tx.output]

(***************************************************************************)
(* Witness items and signatures.  A signature item stands for              *)
(* DER(sig) ++ [sighash byte]; it records the key that made it and the     *)
(* digest it signs.                                                        *)
(***************************************************************************)
NoHash == [none |-> TRUE]
SigItem(key, h) == [k |-> "sig", key |-> key, h |-> h]
PubItem(key) == [k |-> "pub", key |-> key, h |-> NoHash]
JunkItem == [k |-> "junk", key |-> "", h |-> NoHash]
\* a witness item of zero bytes
EmptyItem == [k |-> "empty", key |-> "", h |-> NoHash]

\* the script code DUP HASH160 <pkh> EQUALVERIFY CHECKSIG built from a
\* p2wpkh script_pubkey
P2wpkhScriptCode(script) == Script("p2pkh_code", script.h)

\* SighashComponents::new(tx).sighash_all(input, script_code, value): BIP-143
SighashAll(tx, i, script_code, value) ==
    [version |-> tx.version,
     prevouts |-> [j \in 1..Len(tx.input) |-> tx.input[j].previous_output],
     sequences |-> [j \in 1..Len(tx.input) |-> tx.input[j].sequence],
     outpoint |-> tx.input[i + 1].previous_output,
     script_code |-> script_code,
     value |-> value,
     sequence |-> tx.input[i + 1].sequence,
     outputs |-> tx.output,
     lock_time |-> tx.lock_time]

(***************************************************************************)
(* Errors                                                                  *)
(***************************************************************************)
\* ProtocolError: e the variant, s its string or inner variant, i its index
PE(e, s, i) == [e |-> e, s |-> s, i |-> i]
NoPE == PE("", "", -1)
UnexpectedMessage == PE("UNEXPECTEDMESSAGE", "", -1)
Expected(tag) == PE("EXPECTED", tag, -1)
InvalidVersion(v) == PE("INVALIDVERSION", v, -1)
InvalidProof(variant, i) == PE("INVALIDPROOF", variant, i)
InvalidFinalTransaction(variant) == PE("INVALIDFINALTRANSACTION", variant, -1)
InvalidUtxo == PE("INVALIDUTXO", "", -1)
MissingData == PE("MISSINGDATA", "", -1)

\* crate::Error
Error(k, pe) == [k |-> k, pe |-> pe]
NoError == Error("", NoPE)
Protocol(pe) == Error("Protocol", pe)
PeerError(pe) == Error("PeerError", pe)
ErrTimeout == Error("Timeout", NoPE)
ErrEOF == Error("EOF", NoPE)
ErrIO == Error("IO", NoPE)
ErrSerde == Error("Serde", NoPE)
\* what an error of the Blockchain or of the Signer converts into
ErrChain == Error("Chain", NoPE)
ErrSigner == Error("Signer", NoPE)

\* Result<Transaction-like, Error>, or a panic of the thread
ROk(v) == [ok |-> TRUE, panic |-> FALSE, err |-> NoError, v |-> v]
RErr(e) == [ok |-> FALSE, panic |-> FALSE, err |-> e, v |-> NoTx]
RPanic == [ok |-> FALSE, panic |-> TRUE, err |-> NoError, v |-> NoTx]

(***************************************************************************)
(* The chain the oracles answer from                                       *)
(***************************************************************************)
SenderKey == "k1"
ReceiverKey == "kr"
SenderUtxo == OutPoint("ta", 0)
SenderUtxo2 == OutPoint("ta", 2)
OurUtxo == OutPoint("tr", 0)
ExpectedAmount == 3000000
ExpectedScript == P2wpkh("kpay")
ChangeScript == P2wpkh("kchg")


ChainTx(txid) ==
    CASE txid = "ta" ->
           Tx(2, 0, <<>>, <<TxOut(BTC, P2wpkh(SenderKey)),
                            TxOut(1000, Script("p2pkh", SenderKey)),
                            TxOut(ExpectedAmount + ClientFees, P2wpkh(SenderKey))>>)
      [] txid = "tr" ->
           Tx(2, 0, <<>>, <<TxOut(2 * BTC, P2wpkh(ReceiverKey))>>)
      [] OTHER ->
           Tx(2, 0, <<>>, [j \in 1..(NPositions + 1) |-> TxOut(1000000, P2wpkh("kd"))])

\* n decoys, pairwise distinct and different from our_utxo
Decoys(n) == [j \in 1..n |-> OutPoint("td", j - 1)]

(***************************************************************************)
(* An oracle view: how the Blockchain and the Signer answer during one FSM *)
(* transition.  rich says that the chain's first outputs hold amounts next *)
(* to u64::MAX, checked that the build panics on an arithmetic overflow    *)
(* (debug-assertions) instead of wrapping.                                 *)
(***************************************************************************)
OracleOk ==
    [getTxErr |-> FALSE, unspentErr |-> FALSE, spent |-> {},
     decoysErr |-> FALSE, nDecoys |-> NPositions - 1, bcastErr |-> FALSE,
     signErr |-> FALSE, rich |-> FALSE, checked |-> FALSE]

OracleViews ==
    {OracleOk,
     [OracleOk EXCEPT !.getTxErr = TRUE],
     [OracleOk EXCEPT !.unspentErr = TRUE],
     [OracleOk EXCEPT !.spent = {SenderUtxo}],
     [OracleOk EXCEPT !.spent = {OutPoint("td", 3)}],
     [OracleOk EXCEPT !.decoysErr = TRUE],
     [OracleOk EXCEPT !.nDecoys = NPositions - 2],
     [OracleOk EXCEPT !.nDecoys = NPositions],
     [OracleOk EXCEPT !.bcastErr = TRUE],
     [OracleOk EXCEPT !.signErr = TRUE]}

\* Blockchain::get_tx
GetTx(o, txid) ==
    IF o.getTxErr \/ txid \notin {"ta", "tr", "td"} THEN RErr(ErrChain)
    ELSE IF o.rich
       THEN ROk([ChainTx(txid) EXCEPT !.output[1].value = U64Max - ExpectedAmount + 1])
    ELSE ROk(ChainTx(txid))

(***************************************************************************)
(* Signer (demo.rs SoftwareSigner): one key and the (amount, script) of    *)
(* the outpoints it can sign for.                                          *)
(***************************************************************************)
SenderSigner == [key |-> SenderKey, metadata |-> {SenderUtxo, SenderUtxo2}]
ReceiverSigner == [key |-> ReceiverKey, metadata |-> {OurUtxo}]

MetaAmount(po) == ChainTx(po.txid).output[po.vout + 1].value
MetaScript(po) == ChainTx(po.txid).output[po.vout + 1].script_pubkey

\* the witness Signer::sign writes on input i of tx
SignedWitness(signer, tx, i) ==
    LET po == tx.input[i + 1].previous_output
    IN <<SigItem(signer.key, SighashAll(tx, i, P2wpkhScriptCode(MetaScript(po)), MetaAmount(po))),
         PubItem(signer.key)>>

\* Signer::sign(&mut tx, inputs): only the inputs listed are overwritten; an
\* outpoint the signer has no metadata for makes it panic (unwrap)
Sign(signer, tx, inputs, o) ==
    LET idx == {i \in inputs : i < Len(tx.input)}
    IN IF o.signErr THEN RErr(ErrSigner)
       ELSE IF \E i \in idx : \/ tx.input[i + 1].previous_output \notin signer.metadata
                              \/ ~IsV0P2wpkh(MetaScript(tx.input[i + 1].previous_output))
            THEN RPanic
       ELSE ROk([tx EXCEPT !.input =
                    [j \in 1..Len(tx.input) |->
                        IF (j - 1) \in idx
                        THEN [tx.input[j] EXCEPT !.witness = SignedWitness(signer, tx, j - 1)]
                        ELSE tx.input[j]]])

(***************************************************************************)
(* WitnessWrapper: the consensus serialization of one witness stack, a     *)
(* count followed by the items; it decodes only when the count matches.    *)
(***************************************************************************)
\* WitnessWrapper::new(&witness)
WitnessWrapper(w) == [n |-> Len(w), items |-> w]
\* deserialize(witness.as_ref()) succeeds
Decodes(ww) == ww.n = Len(ww.items)
\* deserialize(witness.as_ref())
Deserialize(ww) == ww.items

(***************************************************************************)
(* ProofTransaction (common.rs)                                            *)
(***************************************************************************)
ClearSigs(ins) ==
    [j \in 1..Len(ins) |-> [ins[j] EXCEPT !.script_sig = EmptyScript, !.witness = <<>>]]

\* a construction that asks the signer before it looks at the transaction
ProofCreatedSignFirst(tx, signer, o) ==
    IF ~Sign(signer, tx, 0..(Len(tx.input) - 1), o).ok
       THEN Sign(signer, tx, 0..(Len(tx.input) - 1), o)
    ELSE IF tx.version # 2 THEN RErr(Protocol(InvalidProof("InvalidVersion", -1)))
    ELSE IF tx.lock_time # 0 THEN RErr(Protocol(InvalidProof("InvalidLocktime", -1)))
    ELSE Sign(signer,
              [tx EXCEPT !.output = <<TxOut(ProofOutputValue, EmptyScript)>>,
                         !.input = ClearSigs(tx.input)],
              0..(Len(tx.input) - 1), o)

\* ProofTransaction::<Created>::try_from((tx, signer))
ProofCreated(tx, signer, o) ==
    IF tx.version # 2 THEN RErr(Protocol(InvalidProof("InvalidVersion", -1)))
    ELSE IF tx.lock_time # 0 THEN RErr(Protocol(InvalidProof("InvalidLocktime", -1)))
    ELSE Sign(signer,
              [tx EXCEPT !.output = <<TxOut(ProofOutputValue, EmptyScript)>>,
                         !.input = ClearSigs(tx.input)],
              0..(Len(tx.input) - 1), o)

\* secp.verify(hash, Signature::from_der(sig[..len-1]), PublicKey::from_slice(pubkey))
VerifyWitness(signature, pubkey, hash) ==
    /\ signature.k = "sig"
    /\ pubkey.k = "pub"
    /\ signature.key = pubkey.key
    /\ signature.h = hash

\* the loop over the inputs of ProofTransaction::<Validated>::try_from, from input i
RECURSIVE ValidateInputs(_, _, _)
ValidateInputs(tx, i, o) ==
    IF i >= Len(tx.input) THEN ROk(tx)
    ELSE
      LET input == tx.input[i + 1]
          po == input.previous_output
          prev == GetTx(o, po.txid)
      IN IF ~prev.ok THEN prev
         ELSE IF po.vout >= Len(prev.v.output)
              THEN RErr(Protocol(InvalidProof("MissingUTXO", i)))
         ELSE
           LET prev_out == prev.v.output[po.vout + 1]
               hash == SighashAll(tx, i, P2wpkhScriptCode(prev_out.script_pubkey),
                                  prev_out.value)
           IN IF ~IsV0P2wpkh(prev_out.script_pubkey)
                 THEN RErr(Protocol(InvalidProof("InvalidInputType", i)))
              ELSE IF o.unspentErr THEN RErr(ErrChain)
              ELSE IF po \in o.spent
                 THEN RErr(Protocol(InvalidProof("InputIsSpent", i)))
              ELSE IF Len(input.witness) < 2
                 THEN RErr(Protocol(InvalidProof("InvalidInputSignature", i)))
              \* signature.len() - 1 on an empty signature
              ELSE IF input.witness[1].k = "empty" THEN RPanic
              ELSE IF ~VerifyWitness(input.witness[1], input.witness[2], hash)
                 THEN RErr(Protocol(InvalidProof("InvalidInputSignature", i)))
              ELSE ValidateInputs(tx, i + 1, o)

\* ProofTransaction::<Validated>::try_from((tx, blockchain))
ProofValidated(tx, o) ==
    IF tx.version # 2 THEN RErr(Protocol(InvalidProof("InvalidVersion", -1)))
    ELSE IF tx.lock_time # 0 THEN RErr(Protocol(InvalidProof("InvalidLocktime", -1)))
    ELSE IF \/ Len(tx.output) # 1
            \/ tx.output[1].value # ProofOutputValue
            \/ ~ScriptIsEmpty(tx.output[1].script_pubkey)
         THEN RErr(Protocol(InvalidProof("InvalidProofOutput", -1)))
    ELSE ValidateInputs(tx, 0, o)

(***************************************************************************)
(* FinalTransaction (common.rs)                                            *)
(***************************************************************************)
FinalTransactionMeta(tx, fees, sender_script, receiver_txin, receiver_input_index,
                     receiver_txout, receiver_output_index) ==
    [tx |-> tx, fees |-> fees, sender_script |-> sender_script,
     receiver_txin |-> receiver_txin, receiver_input_index |-> receiver_input_index,
     receiver_txout |-> receiver_txout, receiver_output_index |-> receiver_output_index]

FinalTransaction(tx, receiver_input_index) ==
    [transaction |-> tx, receiver_input_index |-> receiver_input_index]

\* the loop summing the previous outputs of the sender's inputs, from input i:
\* a Result whose value is the sum
RECURSIVE SenderInputValueFrom(_, _, _, _)
SenderInputValueFrom(tx, i, acc, o) ==
    IF i >= Len(tx.input) THEN ROk(acc)
    ELSE LET po == tx.input[i + 1].previous_output
             prev == GetTx(o, po.txid)
         IN IF ~prev.ok THEN prev
            ELSE IF po.vout >= Len(prev.v.output) THEN RPanic
            \* sender_input_value += ...
            ELSE IF Overflows(acc, prev.v.output[po.vout + 1].value) /\ o.checked THEN RPanic
            ELSE SenderInputValueFrom(tx, i + 1,
                                      WrappingAdd(acc, prev.v.output[po.vout + 1].value), o)

\* a check that also refuses a change of zero
NegativeSenderAmountStrict(value, fees, amount) == value < fees \/ value - fees <= amount

\* value.checked_sub(fees) or the checked_sub(amount) of its result is None
NegativeSenderAmount(value, fees, amount) == value < fees \/ value - fees < amount

\* an index that is refused already when it equals the length
PastEndStrict(index, len) == index >= len

\* receiver_output_index > tx.output.len() / receiver_input_index > tx.input.len()
PastEnd(index, len) == index > len

\* FinalTransaction::<Unsigned>::try_from((meta, blockchain)) once the sum siv
\* of the sender's inputs and the receiver's previous transaction rprev have
\* been asked for
FinalUnsignedWith(meta, siv, rprev, checked) ==
    LET rpo == meta.receiver_txin.previous_output
        change == TxOut(siv.v - meta.fees - meta.receiver_txout.value, meta.sender_script)
        rout == TxOut(WrappingAdd(meta.receiver_txout.value,
                                  rprev.v.output[rpo.vout + 1].value),
                      meta.receiver_txout.script_pubkey)
    IN IF ~siv.ok THEN siv
       ELSE IF NegativeSenderAmount(siv.v, meta.fees, meta.receiver_txout.value)
          THEN RErr(Protocol(InvalidFinalTransaction("NegativeSenderAmount")))
       ELSE IF ~rprev.ok THEN rprev
       ELSE IF rpo.vout >= Len(rprev.v.output) THEN RPanic
       \* receiver_txout.value += receiver_input_value
       ELSE IF checked /\ Overflows(meta.receiver_txout.value,
                                    rprev.v.output[rpo.vout + 1].value)
          THEN RPanic
       ELSE IF PastEnd(meta.receiver_output_index, 1)
          THEN RErr(Protocol(InvalidFinalTransaction("InvalidReceiverOutputIndex")))
       ELSE IF meta.receiver_txin.sequence # SeqFinal
          THEN RErr(Protocol(InvalidFinalTransaction("InvalidReceiverInputSequence")))
       ELSE IF \/ ~ScriptIsEmpty(meta.receiver_txin.script_sig)
               \/ meta.receiver_txin.witness # <<>>
          THEN RErr(Protocol(InvalidFinalTransaction("InvalidReceiverInputNonEmptySig")))
       ELSE IF PastEnd(meta.receiver_input_index, Len(meta.tx.input))
          THEN RErr(Protocol(InvalidFinalTransaction("InvalidReceiverInputIndex")))
       ELSE ROk(FinalTransaction(
                  [meta.tx EXCEPT
                     !.output = Insert(<<change>>, meta.receiver_output_index, rout),
                     !.input = Insert(meta.tx.input, meta.receiver_input_index,
                                      meta.receiver_txin)],
                  meta.receiver_input_index))

\* FinalTransaction::<Unsigned>::try_from((meta, blockchain))
FinalUnsigned(meta, o) ==
    FinalUnsignedWith(meta, SenderInputValueFrom(meta.tx, 0, 0, o),
                      GetTx(o, meta.receiver_txin.previous_output.txid), o.checked)

\* the indices (0-based) of the inputs other than the receiver's
SenderIndices(ft) ==
    {i \in 0..(Len(ft.transaction.input) - 1) : i # ft.receiver_input_index}

\* the final transaction of the next stage, or the signer's failure
Resigned(signed, receiver_input_index) ==
    IF signed.ok THEN ROk(FinalTransaction(signed.v, receiver_input_index)) ELSE signed

\* FinalTransaction::<SenderSigned>::try_from((unsigned, signer))
FinalSenderSignedBySigner(ft, signer, o) ==
    Resigned(Sign(signer, [ft.transaction EXCEPT !.input = ClearSigs(ft.transaction.input)],
                  SenderIndices(ft), o),
             ft.receiver_input_index)

\* the rank counted from the last input
RankFromEnd(ft, i) == Cardinality({k \in SenderIndices(ft) : k > i})

\* the rank (0-based) of input i among the inputs other than the receiver's
Rank(ft, i) == Cardinality({k \in SenderIndices(ft) : k < i})

\* FinalTransaction::<SenderSigned>::try_from((unsigned, &witnesses)): the
\* filtered inputs zipped with the bundle, in order, stopping at the first
\* witness that does not deserialize
FinalSenderSignedByWitnesses(ft, witnesses) ==
    LET zipped == {i \in SenderIndices(ft) : Rank(ft, i) < Len(witnesses)}
        bundleOf(i) == witnesses[Rank(ft, i) + 1]
    IN IF \E i \in zipped : ~Decodes(bundleOf(i))
          THEN RErr(Protocol(InvalidFinalTransaction("InvalidWitness")))
       ELSE ROk(FinalTransaction(
                  [ft.transaction EXCEPT !.input =
                      [j \in 1..Len(ft.transaction.input) |->
                          IF (j - 1) \in zipped
                          THEN [ft.transaction.input[j] EXCEPT
                                   !.witness = Deserialize(bundleOf(j - 1))]
                          ELSE ft.transaction.input[j]]],
                  ft.receiver_input_index))

\* a signing that clears every input before it asks the signer
FinalSignedCleared(ft, signer, o) ==
    Resigned(Sign(signer, [ft.transaction EXCEPT !.input = ClearSigs(ft.transaction.input)],
                  {ft.receiver_input_index}, o),
             ft.receiver_input_index)

\* FinalTransaction::<Signed>::try_from((sender_signed, signer))
FinalSigned(ft, signer, o) ==
    Resigned(Sign(signer, ft.transaction, {ft.receiver_input_index}, o),
             ft.receiver_input_index)

(***************************************************************************)
(* Messages (lib.rs)                                                       *)
(***************************************************************************)
ReqVersion(v) == [t |-> "Request", m |-> "VERSION", version |-> v]
ReqProof(tx) == [t |-> "Request", m |-> "PROOF", transaction |-> tx]
\* a request whose two positions are exchanged
ReqWitnessesSwapped(fees, change_script, rip, rop, witnesses) ==
    [t |-> "Request", m |-> "WITNESSES", fees |-> fees, change_script |-> change_script,
     receiver_input_position |-> rop, receiver_output_position |-> rip,
     witnesses |-> witnesses]

ReqWitnesses(fees, change_script, rip, rop, witnesses) ==
    [t |-> "Request", m |-> "WITNESSES", fees |-> fees, change_script |-> change_script,
     receiver_input_position |-> rip, receiver_output_position |-> rop,
     witnesses |-> witnesses]
RespVersion(v) == [t |-> "Response", m |-> "version", version |-> v]
RespUtxos(utxos) == [t |-> "Response", m |-> "utxos", utxos |-> utxos]
RespTxid(txid, tx) == [t |-> "Response", m |-> "txid", txid |-> txid, transaction |-> tx]
MsgError(pe) == [t |-> "Error", m |-> "error", error |-> pe]
NoMsg == [t |-> "None", m |-> ""]

\* a decoding that reads the serialization without witnesses
FromHexLegacy(h) == [h.hex EXCEPT !.input = [j \in 1..Len(h.hex.input) |->
                                               [h.hex.input[j] EXCEPT !.witness = <<>>]]]

\* to_hex / from_hex of a consensus-serialized transaction
ToHex(tx) == [hex |-> tx]
FromHex(h) == h.hex

\* Message::as_json(id): the envelope as a JSON object
AsJson(msg, id) ==
    CASE msg.t = "Request" /\ msg.m = "VERSION" ->
           [method |-> "VERSION", params |-> [version |-> msg.version],
            jsonrpc |-> "2.0", id |-> id]
      [] msg.t = "Request" /\ msg.m = "PROOF" ->
           [method |-> "PROOF", params |-> [transaction |-> ToHex(msg.transaction)],
            jsonrpc |-> "2.0", id |-> id]
      [] msg.t = "Request" /\ msg.m = "WITNESSES" ->
           [method |-> "WITNESSES",
            params |-> [fees |-> msg.fees, change_script |-> msg.change_script,
                        receiver_input_position |-> msg.receiver_input_position,
                        receiver_output_position |-> msg.receiver_output_position,
                        witnesses |-> msg.witnesses],
            jsonrpc |-> "2.0", id |-> id]
      [] msg.t = "Response" /\ msg.m = "version" ->
           [result |-> [version |-> msg.version], jsonrpc |-> "2.0", id |-> id]
      [] msg.t = "Response" /\ msg.m = "utxos" ->
           [result |-> [utxos |-> msg.utxos], jsonrpc |-> "2.0", id |-> id]
      [] msg.t = "Response" /\ msg.m = "txid" ->
           [result |-> [txid |-> msg.txid, transaction |-> ToHex(msg.transaction)],
            jsonrpc |-> "2.0", id |-> id]
      [] OTHER ->
           [error |-> msg.error, jsonrpc |-> "2.0", id |-> id]

\* a line of text as read_line returns it: a JSON object, text that is no
\* JSON, or only whitespace
JsonLine(obj) == [kind |-> "json", obj |-> obj]
GarbageLine == [kind |-> "garbage", obj |-> [none |-> TRUE]]
BlankLine == [kind |-> "blank", obj |-> [none |-> TRUE]]

\* serde's untagged Response: the first variant whose fields are all present
ParseResponse(r) ==
    IF "version" \in DOMAIN r THEN ROk(RespVersion(r.version))
    ELSE IF "utxos" \in DOMAIN r THEN ROk(RespUtxos(r.utxos))
    ELSE IF {"txid", "transaction"} \subseteq DOMAIN r
         THEN ROk(RespTxid(r.txid, FromHex(r.transaction)))
    ELSE RErr(ErrSerde)

\* serde's tagged Request (tag "method", content "params")
ParseRequest(obj) ==
    IF ~({"method", "params"} \subseteq DOMAIN obj) THEN RErr(ErrSerde)
    ELSE IF obj.method = "VERSION" /\ "version" \in DOMAIN obj.params
         THEN ROk(ReqVersion(obj.params.version))
    ELSE IF obj.method = "PROOF" /\ "transaction" \in DOMAIN obj.params
         THEN ROk(ReqProof(FromHex(obj.params.transaction)))
    ELSE IF obj.method = "WITNESSES" /\ "witnesses" \in DOMAIN obj.params
         THEN ROk(ReqWitnesses(obj.params.fees, obj.params.change_script,
                               obj.params.receiver_input_position,
                               obj.params.receiver_output_position,
                               obj.params.witnesses))
    ELSE RErr(ErrSerde)

\* serde_json::from_str::<Message>(line.trim()): the untagged Message, its
\* variants tried in order Request, Response, Error
ParseLine(line) ==
    IF line.kind # "json" THEN RErr(ErrSerde)
    ELSE IF ParseRequest(line.obj).ok THEN ParseRequest(line.obj)
    ELSE IF "result" \in DOMAIN line.obj /\ ParseResponse(line.obj.result).ok
         THEN ParseResponse(line.obj.result)
    ELSE IF "error" \in DOMAIN line.obj THEN ROk(MsgError(line.obj.error))
    ELSE RErr(ErrSerde)

(***************************************************************************)
(* What one FSM transition returns: the new state, Ok(Some(out)), Ok(None),*)
(* Err(err) or a panic, and the oracle calls and pipeline stages it went   *)
(* through, in order.                                                      *)
(***************************************************************************)
Ev(k, ok, x) == [k |-> k, ok |-> ok, x |-> x]

TSome(st, out, ev) == [st |-> st, kind |-> "some", out |-> out, err |-> NoError, ev |-> ev]
TNone(st, ev) == [st |-> st, kind |-> "none", out |-> NoMsg, err |-> NoError, ev |-> ev]
TErr(st, e, ev) == [st |-> st, kind |-> "err", out |-> NoMsg, err |-> e, ev |-> ev]
TPanic(st, ev) == [st |-> st, kind |-> "panic", out |-> NoMsg, err |-> NoError, ev |-> ev]

\* `?` on a pipeline result that did not succeed
TFail(st, r, ev) == IF r.panic THEN TPanic(st, ev) ELSE TErr(st, r.err, ev)

(***************************************************************************)
(* The receiver FSM (server.rs)                                            *)
(***************************************************************************)
ServerWaitingVersion == [s |-> "WaitingVersion"]
OurTxout == TxOut(ExpectedAmount, ExpectedScript)

\* a WaitingVersion that takes any version string
ServerOnWaitingVersionAny(st, message) ==
    IF message.m = "VERSION"
       THEN TSome([s |-> "ClientVersion", version |-> message.version],
                  RespVersion(VERSION), <<>>)
    ELSE TErr(st, Protocol(Expected("VERSION")), <<>>)

\* ServerState::transition in WaitingVersion
ServerOnWaitingVersion(st, message) ==
    IF message.m = "VERSION" /\ message.version = VERSION
       THEN TSome([s |-> "ClientVersion", version |-> message.version],
                  RespVersion(VERSION), <<>>)
    ELSE IF message.m = "VERSION"
       THEN TErr(st, Protocol(InvalidVersion(message.version)), <<>>)
    ELSE TErr(st, Protocol(Expected("VERSION")), <<>>)

\* ServerState::transition in ClientVersion once the proof has been through
\* validation; pos is what gen_range(0, 100) draws
\* (the pick_decoys event carries the number of outpoints returned)
ServerPickDecoys(st, proof, o, pos) ==
    IF ~proof.ok THEN TFail(st, proof, <<Ev("validate", FALSE, NoTx)>>)
    ELSE IF o.decoysErr
       THEN TErr(st, ErrChain, <<Ev("validate", TRUE, proof.v),
                                 Ev("pick_decoys", FALSE, NoTx)>>)
    \* Vec::insert panics when the index is past the end
    ELSE IF pos > o.nDecoys
       THEN TPanic(st, <<Ev("validate", TRUE, proof.v), Ev("pick_decoys", TRUE, o.nDecoys)>>)
    ELSE TSome([s |-> "ClientProof", version |-> st.version, proof |-> proof.v,
                utxos |-> Insert(Decoys(o.nDecoys), pos, OurUtxo),
                our_utxo_position |-> pos],
               RespUtxos(Insert(Decoys(o.nDecoys), pos, OurUtxo)),
               <<Ev("validate", TRUE, proof.v), Ev("pick_decoys", TRUE, o.nDecoys)>>)

\* ServerState::transition in ClientVersion
ServerOnClientVersion(st, message, o, pos) ==
    IF message.m # "PROOF" THEN TErr(st, Protocol(Expected("PROOF")), <<>>)
    ELSE ServerPickDecoys(st, ProofValidated(message.transaction, o), o, pos)

\* ServerBroadcast without the `?` on blockchain.broadcast: the Txid response
\* is built whatever broadcast returned
ServerBroadcastUnchecked(st, signed, o) ==
    IF ~signed.ok
       THEN TFail(st, signed, <<Ev("unsigned", TRUE, NoTx), Ev("sender_signed", TRUE, NoTx),
                                Ev("signed", FALSE, NoTx)>>)
    ELSE TSome([s |-> "ClientWitnesses", version |-> st.version,
                final_transaction |-> signed.v.transaction],
               RespTxid(Txid(signed.v.transaction), signed.v.transaction),
               <<Ev("unsigned", TRUE, NoTx), Ev("sender_signed", TRUE, NoTx),
                 Ev("signed", TRUE, NoTx),
                 Ev("broadcast", ~o.bcastErr, signed.v.transaction)>>)

\* a ServerBroadcast that assigns the state before it broadcasts
ServerBroadcastAssignFirst(st, signed, o) ==
    IF ~signed.ok
       THEN TFail(st, signed, <<Ev("unsigned", TRUE, NoTx), Ev("sender_signed", TRUE, NoTx),
                                Ev("signed", FALSE, NoTx)>>)
    ELSE IF o.bcastErr
       THEN TErr([s |-> "ClientWitnesses", version |-> st.version,
                  final_transaction |-> signed.v.transaction], ErrChain,
                 <<Ev("unsigned", TRUE, NoTx), Ev("sender_signed", TRUE, NoTx),
                   Ev("signed", TRUE, NoTx), Ev("broadcast", FALSE, signed.v.transaction)>>)
    ELSE TSome([s |-> "ClientWitnesses", version |-> st.version,
                final_transaction |-> signed.v.transaction],
               RespTxid(Txid(signed.v.transaction), signed.v.transaction),
               <<Ev("unsigned", TRUE, NoTx), Ev("sender_signed", TRUE, NoTx),
                 Ev("signed", TRUE, NoTx), Ev("broadcast", TRUE, signed.v.transaction)>>)

\* ServerState::transition in ClientProof from blockchain.broadcast on
ServerBroadcast(st, signed, o) ==
    IF ~signed.ok
       THEN TFail(st, signed, <<Ev("unsigned", TRUE, NoTx), Ev("sender_signed", TRUE, NoTx),
                                Ev("signed", FALSE, NoTx)>>)
    ELSE IF o.bcastErr
       THEN TErr(st, ErrChain,
                 <<Ev("unsigned", TRUE, NoTx), Ev("sender_signed", TRUE, NoTx),
                   Ev("signed", TRUE, NoTx), Ev("broadcast", FALSE, signed.v.transaction)>>)
    ELSE TSome([s |-> "ClientWitnesses", version |-> st.version,
                final_transaction |-> signed.v.transaction],
               RespTxid(Txid(signed.v.transaction), signed.v.transaction),
               <<Ev("unsigned", TRUE, NoTx), Ev("sender_signed", TRUE, NoTx),
                 Ev("signed", TRUE, NoTx), Ev("broadcast", TRUE, signed.v.transaction)>>)

\* ServerState::transition in ClientProof from the Signed stage on
ServerSign(st, adopted, o) ==
    IF ~adopted.ok
       THEN TFail(st, adopted, <<Ev("unsigned", TRUE, NoTx), Ev("sender_signed", FALSE, NoTx)>>)
    ELSE ServerBroadcast(st, FinalSigned(adopted.v, ReceiverSigner, o), o)

\* ServerState::transition in ClientProof from witnesses.get(our_utxo_position) on
ServerAdopt(st, message, unsigned, o) ==
    IF ~unsigned.ok THEN TFail(st, unsigned, <<Ev("unsigned", FALSE, NoTx)>>)
    ELSE IF st.our_utxo_position >= Len(message.witnesses)
       THEN TErr(st, Protocol(MissingData),
                 <<Ev("unsigned", TRUE, NoTx), Ev("get", FALSE, NoTx)>>)
    ELSE ServerSign(st,
                    FinalSenderSignedByWitnesses(
                        unsigned.v, message.witnesses[st.our_utxo_position + 1]),
                    o)

\* ServerState::transition in ClientProof
ServerOnClientProof(st, message, o) ==
    IF message.m # "WITNESSES" THEN TErr(st, Protocol(Expected("WITNESSES")), <<>>)
    ELSE ServerAdopt(st, message,
                     FinalUnsigned(
                         FinalTransactionMeta(st.proof, message.fees, message.change_script,
                                              TxIn(OurUtxo, SeqFinal, EmptyScript, <<>>),
                                              message.receiver_input_position,
                                              OurTxout, message.receiver_output_position),
                         o),
                     o)

\* a transition that ignores what arrives in the terminal state
ServerTransitionLoose(st, message, o, pos) ==
    CASE st.s = "WaitingVersion" -> ServerOnWaitingVersion(st, message)
      [] st.s = "ClientVersion" -> ServerOnClientVersion(st, message, o, pos)
      [] st.s = "ClientProof" -> ServerOnClientProof(st, message, o)
      [] OTHER -> TNone(st, <<>>)

\* ServerState::transition
ServerTransition(st, message, o, pos) ==
    CASE st.s = "WaitingVersion" -> ServerOnWaitingVersion(st, message)
      [] st.s = "ClientVersion" -> ServerOnClientVersion(st, message, o, pos)
      [] st.s = "ClientProof" -> ServerOnClientProof(st, message, o)
      [] OTHER -> TErr(st, Protocol(UnexpectedMessage), <<>>)

\* ServerState::done
ServerDone(st) ==
    IF st.s = "ClientWitnesses" THEN ROk(Txid(st.final_transaction)) ELSE RErr(NoError)

(***************************************************************************)
(* The sender FSM (client.rs)                                              *)
(***************************************************************************)
ClientWaitingVersion == [s |-> "WaitingVersion"]

\* the transaction the sender would have sent on its own
BaseTx ==
    Tx(2, 0, <<TxIn(SenderUtxo, "0xFFFFFFFE", EmptyScript, <<>>)>>,
       <<TxOut(92000000, ChangeScript), TxOut(ExpectedAmount, ExpectedScript)>>)

ClientConfig(base, roi) == [base_transaction |-> base, receiver_output_index |-> roi]

\* ClientState::transition in WaitingVersion once the state has been assigned
\* and the proof transaction asked for
ClientSendProof(next, proof) ==
    IF ~proof.ok THEN TFail(next, proof, <<Ev("proof_created", FALSE, NoTx)>>)
    ELSE TSome(next, ReqProof(proof.v), <<Ev("proof_created", TRUE, proof.v)>>)

\* a WaitingVersion that takes any version string
ClientOnWaitingVersionAny(cfg, st, message, o) ==
    IF message.m = "version"
       THEN ClientSendProof([s |-> "ServerVersion", version |-> message.version],
                            ProofCreated(cfg.base_transaction, SenderSigner, o))
    ELSE TErr(st, Protocol(Expected("VERSION")), <<>>)

\* ClientState::transition in WaitingVersion: the state is assigned before the
\* proof transaction is built
ClientOnWaitingVersion(cfg, st, message, o) ==
    IF message.m = "version" /\ message.version = VERSION
       THEN ClientSendProof([s |-> "ServerVersion", version |-> message.version],
                            ProofCreated(cfg.base_transaction, SenderSigner, o))
    ELSE IF message.m = "version"
       THEN TErr(st, Protocol(InvalidVersion(message.version)), <<>>)
    ELSE TErr(st, Protocol(Expected("VERSION")), <<>>)

\* a bundle that holds the witness of every input
ThisUtxoWitnessesAll(ft) ==
    [j \in 1..Len(ft.transaction.input) |-> WitnessWrapper(ft.transaction.input[j].witness)]

\* the witnesses of the inputs other than the receiver's, in input order
ThisUtxoWitnesses(ft) ==
    LET n == Len(ft.transaction.input)
        idx(j) == IF j - 1 < ft.receiver_input_index THEN j ELSE j + 1
        count == IF ft.receiver_input_index < n THEN n - 1 ELSE n
    IN [j \in 1..count |-> WitnessWrapper(ft.transaction.input[idx(j)].witness)]

\* the bundle of a candidate whose final transaction went through the
\* SenderSigned stage
ClientBundle(ssigned) ==
    IF ~ssigned.ok THEN ssigned ELSE ROk(ThisUtxoWitnesses(ssigned.v))

\* the SenderSigned stage of a candidate whose final transaction went through
\* the Unsigned stage
ClientSenderSign(unsigned, o) ==
    IF ~unsigned.ok THEN unsigned
    ELSE ClientBundle(FinalSenderSignedBySigner(unsigned.v, SenderSigner, o))

\* one pass of the loop over the candidates of ClientState::transition in
\* ServerVersion: a Result whose value is the bundle of this candidate
ClientCandidate(meta0, utxo, o) ==
    IF o.unspentErr THEN RErr(ErrChain)
    ELSE IF utxo \in o.spent THEN RErr(Protocol(InvalidUtxo))
    ELSE ClientSenderSign(
             FinalUnsigned([meta0 EXCEPT !.receiver_txin.previous_output = utxo], o), o)

\* what the loop returns, pass[k] being the result of its pass k: the first
\* failure, or the list of bundles
Collected(pass) ==
    LET failed == {k \in DOMAIN pass : ~pass[k].ok}
    IN IF failed # {}
          THEN pass[CHOOSE k \in failed : \A j \in failed : k <= j]
       ELSE ROk([k \in DOMAIN pass |-> pass[k].v])

\* the loop over the candidates: it stops at the first candidate that fails
ClientWitnessLoop(meta0, utxos, o) ==
    Collected([k \in 1..Len(utxos) |-> ClientCandidate(meta0, utxos[k], o)])

\* ClientState::transition in ServerVersion once the loop over the candidates
\* has returned
ClientSendWitnesses(cfg, st, message, proof, witnesses) ==
    IF ~witnesses.ok
       THEN TFail(st, witnesses, <<Ev("proof_created", TRUE, proof.v),
                                   Ev("witnesses", FALSE, NoTx)>>)
    ELSE TSome([s |-> "ServerUtxos", version |-> st.version, utxos |-> message.utxos,
                proof |-> proof.v],
               ReqWitnesses(ClientFees,
                            cfg.base_transaction.output[
                                IF cfg.receiver_output_index = 0 THEN 2 ELSE 1].script_pubkey,
                            Len(cfg.base_transaction.input), cfg.receiver_output_index,
                            witnesses.v),
               <<Ev("proof_created", TRUE, proof.v), Ev("witnesses", TRUE, NoTx)>>)

\* ClientState::transition in ServerVersion once the proof transaction has
\* been asked for again
ClientOnUtxos(cfg, st, message, proof, o) ==
    LET tx == cfg.base_transaction
        change_script_index == IF cfg.receiver_output_index = 0 THEN 1 ELSE 0
    IN \* tx.output[change_script_index] past the end
       IF change_script_index >= Len(tx.output) THEN TPanic(st, <<>>)
       ELSE IF ~proof.ok THEN TFail(st, proof, <<Ev("proof_created", FALSE, NoTx)>>)
       \* tx.output[self.receiver_output_index] past the end
       ELSE IF cfg.receiver_output_index >= Len(tx.output) THEN TPanic(st, <<>>)
       ELSE ClientSendWitnesses(
                cfg, st, message, proof,
                ClientWitnessLoop(
                    FinalTransactionMeta(
                        proof.v, ClientFees, tx.output[change_script_index + 1].script_pubkey,
                        TxIn(OutPoint("null", 0), SeqFinal, EmptyScript, <<>>),
                        Len(tx.input),
                        tx.output[cfg.receiver_output_index + 1],
                        cfg.receiver_output_index),
                    message.utxos, o))

\* ClientState::transition in ServerVersion
ClientOnServerVersion(cfg, st, message, o) ==
    IF message.m # "utxos" THEN TErr(st, Protocol(Expected("UTXOS")), <<>>)
    ELSE ClientOnUtxos(cfg, st, message,
                       ProofCreated(cfg.base_transaction, SenderSigner, o), o)

\* ClientState::transition in ServerUtxos
ClientOnServerUtxos(st, message) ==
    IF message.m = "txid"
       THEN TNone([s |-> "ServerTxid", version |-> st.version,
                   txid |-> message.txid, transaction |-> message.transaction], <<>>)
    ELSE TErr(st, Protocol(Expected("TXID")), <<>>)

\* ClientState::transition
ClientTransition(cfg, st, message, o) ==
    CASE st.s = "WaitingVersion" -> ClientOnWaitingVersion(cfg, st, message, o)
      [] st.s = "ServerVersion" -> ClientOnServerVersion(cfg, st, message, o)
      [] st.s = "ServerUtxos" -> ClientOnServerUtxos(st, message)
      [] OTHER -> TErr(st, Protocol(UnexpectedMessage), <<>>)

\* a sender that is never done
ClientDoneNever(st) == RErr(NoError)

\* ClientState::done
ClientDone(st) ==
    IF st.s = "ServerTxid"
       THEN ROk([txid |-> st.txid, transaction |-> st.transaction])
    ELSE RErr(NoError)

\* a setup that sends the version request on both endpoints
StateSetupBoth(role) == ReqVersion(VERSION)

\* ClientState::setup / the default JsonRpcState::setup
StateSetup(role) == IF role = "client" THEN ReqVersion(VERSION) ELSE NoMsg

(***************************************************************************)
(* The RPC loop (jsonrpc.rs)                                               *)
(***************************************************************************)
\* what timeout(read_line) yields: a timeout (partial says whether bytes of
\* an unterminated line had arrived), an I/O error, 0 bytes, or a line (nl
\* says whether it ends with the newline or with the end of the stream)
ReadTimeout(partial) == [r |-> "timeout", partial |-> partial, line |-> BlankLine, nl |-> FALSE]
ReadIoError == [r |-> "io", partial |-> FALSE, line |-> BlankLine, nl |-> FALSE]
ReadEof == [r |-> "eof", partial |-> FALSE, line |-> BlankLine, nl |-> FALSE]
ReadLine(line, nl) == [r |-> "line", partial |-> FALSE, line |-> line, nl |-> nl]

\* the result of a session: still running, Ok(v), Err(err), or a panic
Running == [r |-> "running", err |-> NoError, v |-> [none |-> TRUE]]
SessOk(v) == [r |-> "Ok", err |-> NoError, v |-> v]
SessErr(e) == [r |-> "Err", err |-> e, v |-> [none |-> TRUE]]
SessPanic == [r |-> "Panic", err |-> NoError, v |-> [none |-> TRUE]]

\* the direction of the messages an endpoint takes in
InDirection(role) == IF role = "server" THEN "Request" ELSE "Response"

Transition(role, cfg, st, message, o, pos) ==
    IF role = "server" THEN ServerTransition(st, message, o, pos)
    ELSE ClientTransition(cfg, st, message, o)

Done(role, st) == IF role = "server" THEN ServerDone(st) ELSE ClientDone(st)

\* what is kept of a read: its kind, and for a line what kind of text it was
ReadSummary(rd) == [r |-> rd.r, partial |-> rd.partial, kind |-> rd.line.kind, nl |-> rd.nl]
NoRead == [r |-> "none", partial |-> FALSE, kind |-> "blank", nl |-> FALSE]

\* what is kept of a dispatched message: everything but the witness bundles,
\* of which only the number is kept
MsgSummary(msg) ==
    IF msg.m = "WITNESSES" THEN [msg EXCEPT !.witnesses = Len(msg.witnesses)] ELSE msg

\* what one iteration of the loop did: the FSM state it leaves, the session
\* result, the read, the message the line parsed as, what the transition
\* returned ("" when the message was not handed to the FSM) and its events,
\* the frame it tried to write and whether that write succeeded
Step(state, res, rd, msg, tkind, terr, ev, w, wok) ==
    [st |-> state, result |-> res, rd |-> rd, msg |-> msg, tkind |-> tkind,
     terr |-> terr, ev |-> ev, w |-> w, wok |-> wok]
NoStep == Step([s |-> ""], Running, NoRead, NoMsg, "", NoError, <<>>, NoMsg, FALSE)

\* if let Ok(data) = self.state.done() { return Ok(data) }
AfterDone(done) == IF done.ok THEN SessOk(done.v) ELSE Running

\* the arms of match self.state.message(parsed) { ... }, tr being what the
\* transition returned, followed by self.state.done()
Matched(role, tr, rd, msg, wok) ==
    CASE tr.kind = "some" ->
           Step(tr.st, IF wok THEN AfterDone(Done(role, tr.st)) ELSE SessErr(ErrIO),
                rd, msg, tr.kind, tr.err, tr.ev, tr.out, wok)
      [] tr.kind = "err" /\ tr.err.k = "Protocol" ->
           Step(tr.st, IF wok THEN SessErr(tr.err) ELSE SessErr(ErrIO),
                rd, msg, tr.kind, tr.err, tr.ev, MsgError(tr.err.pe), wok)
      [] tr.kind = "panic" ->
           Step(tr.st, SessPanic, rd, msg, tr.kind, tr.err, tr.ev, NoMsg, FALSE)
      [] OTHER ->
           Step(tr.st, AfterDone(Done(role, tr.st)), rd, msg, tr.kind, tr.err, tr.ev,
                NoMsg, FALSE)

\* match self.state.message(parsed) { ... } followed by self.state.done()
Dispatch(role, cfg, st, rd, message, o, pos, wok) ==
    Matched(role, Transition(role, cfg, st, message, o, pos), ReadSummary(rd),
            MsgSummary(message), wok)

\* OnParsed with a line that does not parse skipped instead of ending the
\* session
OnParsedLenient(role, cfg, st, rd, parsed, o, pos, wok) ==
    IF ~parsed.ok
       THEN Step(st, Running, ReadSummary(rd), NoMsg, "", NoError, <<>>, NoMsg, FALSE)
    ELSE IF parsed.v.t = "Error"
       THEN Step(st, SessErr(PeerError(parsed.v.error)), ReadSummary(rd), parsed.v, "",
                 NoError, <<>>, NoMsg, FALSE)
    ELSE IF parsed.v.t # InDirection(role)
       THEN Step(st, SessPanic, ReadSummary(rd), MsgSummary(parsed.v), "", NoError, <<>>,
                 NoMsg, FALSE)
    ELSE Dispatch(role, cfg, st, rd, parsed.v, o, pos, wok)

\* the loop's iteration on a line that parsed
OnParsed(role, cfg, st, rd, parsed, o, pos, wok) ==
    IF ~parsed.ok
       THEN Step(st, SessErr(ErrSerde), ReadSummary(rd), NoMsg, "", NoError, <<>>, NoMsg, FALSE)
    ELSE IF parsed.v.t = "Error"
       THEN Step(st, SessErr(PeerError(parsed.v.error)), ReadSummary(rd), parsed.v, "",
                 NoError, <<>>, NoMsg, FALSE)
    \* message.try_into().unwrap()
    ELSE IF parsed.v.t # InDirection(role)
       THEN Step(st, SessPanic, ReadSummary(rd), MsgSummary(parsed.v), "", NoError, <<>>,
                 NoMsg, FALSE)
    ELSE Dispatch(role, cfg, st, rd, parsed.v, o, pos, wok)

\* one iteration of the loop of JsonRpc::mainloop
LoopIteration(role, cfg, st, rd, o, pos, wok) ==
    CASE rd.r = "timeout" ->
           Step(st, SessErr(ErrTimeout), ReadSummary(rd), NoMsg, "", NoError, <<>>, NoMsg, FALSE)
      [] rd.r = "io" ->
           Step(st, SessErr(ErrIO), ReadSummary(rd), NoMsg, "", NoError, <<>>, NoMsg, FALSE)
      [] rd.r = "eof" ->
           Step(st, SessErr(ErrEOF), ReadSummary(rd), NoMsg, "", NoError, <<>>, NoMsg, FALSE)
      [] OTHER -> OnParsed(role, cfg, st, rd, ParseLine(rd.line), o, pos, wok)

(***************************************************************************)
(* The environment: the lines the peer may send                            *)
(***************************************************************************)
\* the proof transaction an honest sender builds from BaseTx
GoodProof == ProofCreated(BaseTx, SenderSigner, OracleOk).v

\* the WITNESSES request an honest sender answers a candidate list with
HonestWitnesses(utxos) ==
    ClientOnServerVersion(ClientConfig(BaseTx, 1),
                          [s |-> "ServerVersion", version |-> VERSION],
                          RespUtxos(utxos), OracleOk).out

\* a witness that does not deserialize
BadWitness == [n |-> 2, items |-> <<JunkItem>>]

\* the WITNESSES requests a peer may make of the honest one h, which carries n
\* bundles: other fees, other positions, fewer bundles, bundles that do not
\* deserialize
WitnessesVariants(h, n) ==
    {h,
     [h EXCEPT !.fees = 2 * BTC],
     [h EXCEPT !.receiver_input_position = 5],
     [h EXCEPT !.receiver_output_position = 2],
     [h EXCEPT !.receiver_input_position = 0, !.receiver_output_position = 0],
     [h EXCEPT !.witnesses = <<>>],
     [h EXCEPT !.witnesses = SubSeq(h.witnesses, 1, n \div 2)],
     [h EXCEPT !.witnesses = [k \in 1..n |-> <<BadWitness>>]],
     [h EXCEPT !.witnesses = [k \in 1..(n \div 2) |-> <<BadWitness>>]],
     [h EXCEPT !.witnesses = [k \in 1..n |->
                                 IF k <= n \div 2 THEN <<BadWitness>> ELSE h.witnesses[k]]]}

\* the messages a peer may send a receiver that is in state st
ServerPeerMessages(st) ==
    {ReqVersion(VERSION), ReqVersion("2.0"), RespVersion(VERSION), MsgError(MissingData)}
      \cup {ReqProof(tx) :
               tx \in {GoodProof, [GoodProof EXCEPT !.version = 1],
                       [GoodProof EXCEPT !.input[1].witness =
                                            <<JunkItem, PubItem(SenderKey)>>]}}
      \cup (IF st.s = "ClientProof"
            THEN WitnessesVariants(HonestWitnesses(st.utxos), Len(st.utxos))
            ELSE {ReqWitnesses(ClientFees, ChangeScript, 1, 1, <<>>)})

\* the candidate lists a peer may send a sender
CandidateLists ==
    {Insert(Decoys(NPositions - 1), 7, OurUtxo),
     <<OurUtxo, OutPoint("td", 3)>>,
     <<OutPoint("tx", 0)>>,
     <<>>}

\* the messages a peer may send a sender
ClientPeerMessages ==
    {RespVersion(VERSION), RespVersion("2.0"), ReqVersion(VERSION),
     MsgError(InvalidVersion("2.0")), RespTxid(Txid(BaseTx), BaseTx)}
      \cup {RespUtxos(l) : l \in CandidateLists}

\* the lines a peer may send: every message under the first id, the version
\* messages under every id, a line that is not JSON and an empty line
PeerLines(role, st) ==
    {JsonLine(AsJson(m, "1")) :
        m \in IF role = "server" THEN ServerPeerMessages(st) ELSE ClientPeerMessages}
      \cup {JsonLine(AsJson(m, id)) : m \in {ReqVersion(VERSION), RespVersion(VERSION)},
                                     id \in {"1", "42"}}
      \cup {GarbageLine, BlankLine}

\* the lines a peer may close its end in the middle of
UnterminatedLines(role) ==
    {JsonLine(AsJson(IF role = "server" THEN ReqVersion(VERSION) ELSE RespVersion(VERSION),
                     "1")),
     GarbageLine}

\* what the next read may yield; a peer that has closed its end yields 0
\* bytes, and after MaxFrames lines the peer goes silent or closes
Reads(role, st, closed, nRead) ==
    IF closed THEN {ReadEof}
    ELSE IF nRead >= MaxFrames THEN {ReadTimeout(FALSE), ReadEof}
    ELSE {ReadTimeout(FALSE), ReadTimeout(TRUE), ReadIoError, ReadEof}
           \cup {ReadLine(l, TRUE) : l \in PeerLines(role, st)}
           \cup {ReadLine(l, FALSE) : l \in UnterminatedLines(role)}

\* what gen_range(0, 100) may draw (drawn only in ClientVersion); the model
\* draws both ends and one value inside
Positions(role, st) ==
    IF role = "server" /\ st.s = "ClientVersion" THEN {0, 1, NPositions - 1} ELSE {0}

(***************************************************************************)
(* State                                                                   *)
(***************************************************************************)
VARIABLES
    role,        \* "server": Server::mainloop; "client": Client::start
    cfg,         \* the sender's base transaction and receiver_output_index
    pc,          \* idle | setup | loop | ended | returned | panicked
    st,          \* the FSM state of the current session
    result,      \* what the current session's JsonRpc::mainloop returned
    last,        \* what the last step of the RPC loop did
    hist,        \* what has happened in the current session so far
    ret,         \* what Server::mainloop / Client::start returned
    sessions,    \* connections accepted so far
    live,        \* sessions whose RPC loop has not returned
    broadcasts,  \* the transactions broadcast with success, in order
    peerClosed,  \* the peer has closed its end of the stream
    twin         \* a second receiver session fed the same frames (SpecPair only)

vars == <<role, cfg, pc, st, result, last, hist, ret, sessions, live, broadcasts,
          peerClosed, twin>>

ClientConfigs ==
    {ClientConfig(BaseTx, 1), ClientConfig(BaseTx, 0),
     ClientConfig([BaseTx EXCEPT !.version = 1], 1)}
NoConfig == ClientConfig(NoTx, 0)

NoHist ==
    [nRead |-> 0,          \* iterations of the loop
     nIn |-> 0,            \* messages handed to the FSM
     nOut |-> 0,           \* frames the endpoint tried to write
     nOutMsg |-> 0,        \* of these, requests (sender) / responses (receiver)
     first |-> NoMsg,      \* the first frame the endpoint tried to write
     valFailed |-> FALSE,  \* a proof validation has returned an error
     swallowed |-> FALSE,  \* an oracle error was returned by a transition
     bcastOk |-> FALSE,    \* a broadcast has succeeded
     nLists |-> 0,         \* candidate lists produced (receiver)
     nWitnesses |-> 0,     \* Witnesses requests taken into the pipeline (receiver)
     nSigned |-> 0]        \* final transactions built and signed (receiver)


\* the events of kind k in a step
EventsOf(step, k) == {i \in 1..Len(step.ev) : step.ev[i].k = k}
HasEvent(step, k, ok) == \E i \in EventsOf(step, k) : step.ev[i].ok = ok

HistAfter(h, r, step) ==
    [nRead |-> h.nRead + (IF step.rd.r # "none" THEN 1 ELSE 0),
     nIn |-> h.nIn + (IF step.tkind \in {"some", "none", "err", "panic"} THEN 1 ELSE 0),
     nOut |-> h.nOut + (IF step.w.t # "None" THEN 1 ELSE 0),
     nOutMsg |-> h.nOutMsg + (IF step.w.t = (IF r = "server" THEN "Response" ELSE "Request") THEN 1 ELSE 0),
     first |-> IF h.nOut = 0 THEN step.w ELSE h.first,
     valFailed |-> h.valFailed \/ HasEvent(step, "validate", FALSE),
     swallowed |-> h.swallowed \/ (step.tkind = "err" /\ step.terr.k # "Protocol"),
     bcastOk |-> h.bcastOk \/ HasEvent(step, "broadcast", TRUE),
     nLists |-> h.nLists + (IF HasEvent(step, "pick_decoys", TRUE) THEN 1 ELSE 0),
     nWitnesses |-> h.nWitnesses + (IF EventsOf(step, "unsigned") # {} THEN 1 ELSE 0),
     nSigned |-> h.nSigned + (IF HasEvent(step, "signed", TRUE) THEN 1 ELSE 0)]

\* the second session: its FSM state, its result and its last step
Twin(state, res, step) == [st |-> state, result |-> res, last |-> step]
NoTwin == Twin([s |-> ""], Running, NoStep)

Init ==
    /\ role \in {"server", "client"}
    /\ cfg \in (IF role = "client" THEN ClientConfigs ELSE {NoConfig})
    /\ pc = "idle"
    /\ st = [s |-> ""]
    /\ result = Running
    /\ last = NoStep
    /\ hist = NoHist
    /\ ret = Running
    /\ sessions = 0
    /\ live = 0
    /\ broadcasts = <<>>
    /\ peerClosed = FALSE
    /\ twin = NoTwin

(***************************************************************************)
(* Actions                                                                 *)
(***************************************************************************)
\* what starting a session sets
NewSession(state) ==
    /\ pc' = "setup"
    /\ st' = state
    /\ result' = Running
    /\ last' = NoStep
    /\ hist' = NoHist
    /\ peerClosed' = FALSE
    /\ live' = live + 1
    /\ sessions' = sessions + 1

\* an accept that does not wait for the running session's loop to return
AcceptAnytime ==
    /\ role = "server"
    /\ pc \in {"idle", "setup", "loop"}
    /\ sessions < MaxSessions
    /\ NewSession(ServerWaitingVersion)
    /\ UNCHANGED <<role, cfg, ret, broadcasts, twin>>

\* Server::mainloop: listener.accept() returns a connection; ServerState::new
\* and JsonRpc::new
Accept ==
    /\ role = "server"
    /\ pc = "idle"
    /\ sessions < MaxSessions
    /\ NewSession(ServerWaitingVersion)
    /\ UNCHANGED <<role, cfg, ret, broadcasts, twin>>

\* Server::mainloop: listener.accept() fails, `?` returns the error
AcceptFails ==
    /\ role = "server"
    /\ pc = "idle"
    /\ pc' = "returned"
    /\ ret' = SessErr(ErrIO)
    /\ UNCHANGED <<role, cfg, st, result, last, hist, sessions, live, broadcasts,
                   peerClosed, twin>>

\* Client::start: ClientState::new and JsonRpc::new
Start ==
    /\ role = "client"
    /\ pc = "idle"
    /\ NewSession(ClientWaitingVersion)
    /\ UNCHANGED <<role, cfg, ret, broadcasts, twin>>

\* where the endpoint goes once the RPC loop's step has set the result r
PcAfter(r) ==
    CASE r.r = "running" -> "loop"
      [] r.r = "Panic" -> "panicked"
      [] OTHER -> "ended"

\* JsonRpc::mainloop up to its loop: the optional setup message
Setup ==
    /\ pc = "setup"
    /\ \E wok \in BOOLEAN :
         LET m == StateSetup(role)
             r == IF m.t = "None" \/ wok THEN Running ELSE SessErr(ErrIO)
             step == Step(st, r, NoRead, NoMsg, "setup", NoError, <<>>, m,
                          m.t # "None" /\ wok)
         IN /\ result' = r
            /\ last' = step
            /\ hist' = HistAfter(hist, role, step)
            /\ pc' = PcAfter(r)
            /\ live' = IF r.r = "running" THEN live ELSE live - 1
    /\ UNCHANGED <<role, cfg, st, ret, sessions, broadcasts, peerClosed, twin>>

\* the transactions a step broadcast with success
Broadcast(step) ==
    LET RECURSIVE from(_)
        from(i) == IF i > Len(step.ev) THEN <<>>
                   ELSE IF step.ev[i].k = "broadcast" /\ step.ev[i].ok
                        THEN <<step.ev[i].x>> \o from(i + 1)
                   ELSE from(i + 1)
    IN from(1)

\* what one iteration of the loop leaves behind, step being what it did
Iterated(step, closes) ==
    /\ st' = step.st
    /\ result' = step.result
    /\ last' = step
    /\ hist' = HistAfter(hist, role, step)
    /\ pc' = PcAfter(step.result)
    /\ live' = IF step.result.r = "running" THEN live ELSE live - 1
    /\ broadcasts' = broadcasts \o Broadcast(step)
    /\ peerClosed' = (peerClosed \/ closes)

\* one iteration of the loop of JsonRpc::mainloop
Iterate ==
    /\ pc = "loop"
    /\ \E rd \in Reads(role, st, peerClosed, hist.nRead), o \in OracleViews,
          pos \in Positions(role, st), wok \in BOOLEAN :
         Iterated(LoopIteration(role, cfg, st, rd, o, pos, wok),
                  rd.r = "eof" \/ (rd.r = "line" /\ ~rd.nl))
    /\ UNCHANGED <<role, cfg, ret, sessions, twin>>

\* a listener that returns whatever the session returned
SessionReturnedAlways ==
    /\ role = "server"
    /\ pc = "ended"
    /\ pc' = "returned"
    /\ ret' = IF result.r = "Ok" THEN SessOk([unit |-> TRUE]) ELSE result
    /\ UNCHANGED <<role, cfg, st, result, last, hist, sessions, live, broadcasts,
                   peerClosed, twin>>

\* Server::mainloop: match jsonrpc.mainloop().await { Ok(_) => break, Err(e) => warn }
SessionReturned ==
    /\ role = "server"
    /\ pc = "ended"
    /\ IF result.r = "Ok"
          THEN pc' = "returned" /\ ret' = SessOk([unit |-> TRUE])
          ELSE pc' = "idle" /\ ret' = ret
    /\ UNCHANGED <<role, cfg, st, result, last, hist, sessions, live, broadcasts,
                   peerClosed, twin>>

\* Client::start: let (txid, _) = jsonrpc.mainloop().await?; Ok(txid)
StartReturns ==
    /\ role = "client"
    /\ pc = "ended"
    /\ pc' = "returned"
    /\ ret' = IF result.r = "Ok" THEN SessOk(result.v.txid) ELSE result
    /\ UNCHANGED <<role, cfg, st, result, last, hist, sessions, live, broadcasts,
                   peerClosed, twin>>

Next ==
    \/ Accept
    \/ AcceptFails
    \/ Start
    \/ Setup
    \/ Iterate
    \/ SessionReturned
    \/ StartReturns

Spec == Init /\ [][Next]_vars

(***************************************************************************)
(* Two receiver sessions side by side: the same frames arrive, the oracles *)
(* answer the same and the writes end the same; only what gen_range draws  *)
(* may differ.  st, result, last and hist are the first session's, twin is *)
(* the second's.                                                           *)
(***************************************************************************)
PairInit ==
    /\ role = "server"
    /\ cfg = NoConfig
    /\ pc = "idle"
    /\ st = [s |-> ""]
    /\ result = Running
    /\ last = NoStep
    /\ hist = NoHist
    /\ ret = Running
    /\ sessions = 0
    /\ live = 0
    /\ broadcasts = <<>>
    /\ peerClosed = FALSE
    /\ twin = NoTwin

\* ServerState::new and JsonRpc::new in both sessions; the receiver's setup
\* sends nothing
PairAccept ==
    /\ pc = "idle"
    /\ sessions = 0
    /\ pc' = "loop"
    /\ st' = ServerWaitingVersion
    /\ twin' = Twin(ServerWaitingVersion, Running, NoStep)
    /\ sessions' = 1
    /\ live' = 1
    /\ UNCHANGED <<role, cfg, result, last, hist, ret, broadcasts, peerClosed>>

\* what one iteration of the loop leaves behind in the two sessions
PairIterated(step, step2, closes) ==
    /\ st' = step.st
    /\ result' = step.result
    /\ last' = step
    /\ hist' = HistAfter(hist, role, step)
    /\ twin' = Twin(step2.st, step2.result, step2)
    /\ pc' = IF step.result.r = "running" /\ step2.result.r = "running"
             THEN "loop" ELSE "ended"
    /\ peerClosed' = (peerClosed \/ closes)

\* one iteration of the loop of JsonRpc::mainloop in both sessions, on the
\* same read
PairIterate ==
    /\ pc = "loop"
    /\ \E rd \in Reads(role, st, peerClosed, hist.nRead), o \in OracleViews,
          pos \in Positions(role, st), pos2 \in Positions(role, twin.st),
          wok \in BOOLEAN :
         PairIterated(LoopIteration(role, cfg, st, rd, o, pos, wok),
                      LoopIteration(role, cfg, twin.st, rd, o, pos2, wok),
                      rd.r = "eof" \/ (rd.r = "line" /\ ~rd.nl))
    /\ UNCHANGED <<role, cfg, ret, sessions, live, broadcasts>>

PairNext ==
    \/ PairAccept
    \/ PairIterate

SpecPair == PairInit /\ [][PairNext]_vars

(***************************************************************************)
(* An FSM on its own: JsonRpcState::message is called with one message of  *)
(* the endpoint's direction after the other, whatever the previous call    *)
(* returned, until a call panics.                                          *)
(***************************************************************************)
FsmInit ==
    /\ role \in {"server", "client"}
    /\ cfg \in (IF role = "client" THEN ClientConfigs ELSE {NoConfig})
    /\ pc = "fsm"
    /\ st = (IF role = "server" THEN ServerWaitingVersion ELSE ClientWaitingVersion)
    /\ result = Running
    /\ last = NoStep
    /\ hist = NoHist
    /\ ret = Running
    /\ sessions = 0
    /\ live = 0
    /\ broadcasts = <<>>
    /\ peerClosed = FALSE
    /\ twin = NoTwin

\* what a call of JsonRpcState::message leaves behind, tr being what the
\* transition returned
FsmCalled(tr, message) ==
    /\ st' = tr.st
    /\ last' = Step(tr.st, Running, NoRead, MsgSummary(message), tr.kind, tr.err, tr.ev,
                    tr.out, FALSE)
    /\ hist' = HistAfter(hist, role,
                         Step(tr.st, Running, NoRead, MsgSummary(message), tr.kind, tr.err,
                              tr.ev, tr.out, FALSE))
    /\ pc' = IF tr.kind = "panic" THEN "panicked" ELSE "fsm"
    /\ broadcasts' = broadcasts \o Broadcast([ev |-> tr.ev])

\* JsonRpcState::message(message)
FsmCall ==
    /\ pc = "fsm"
    /\ hist.nIn < MaxCalls
    /\ \E message \in (IF role = "server" THEN ServerPeerMessages(st)
                        ELSE ClientPeerMessages),
          o \in OracleViews, pos \in Positions(role, st) :
         /\ message.t = InDirection(role)
         /\ FsmCalled(Transition(role, cfg, st, message, o, pos), message)
    /\ UNCHANGED <<role, cfg, result, ret, sessions, live, peerClosed, twin>>

FsmNext == FsmCall

SpecFsm == FsmInit /\ [][FsmNext]_vars

(***************************************************************************)
(* A sender and a receiver on one stream: each endpoint reads the lines    *)
(* the other wrote, in order; every write succeeds, the oracles answer     *)
(* with success and the peer's answer arrives before the read timeout.     *)
(* st, result, last, hist, pc and ret are the sender's; twin holds the     *)
(* receiver's and the two directions of the stream.                        *)
(***************************************************************************)
\* base transactions of a sender that pays ExpectedAmount to ExpectedScript
\* and keeps a change output: one or two inputs, either output order, inputs
\* worth more than or exactly ExpectedAmount + ClientFees
HonestConfigs ==
    {ClientConfig(BaseTx, 1),
     ClientConfig([BaseTx EXCEPT !.output = <<BaseTx.output[2], BaseTx.output[1]>>], 0),
     ClientConfig(Tx(2, 0, <<TxIn(SenderUtxo2, "0xFFFFFFFE", EmptyScript, <<>>),
                             TxIn(SenderUtxo, "0xFFFFFFFE", EmptyScript, <<>>)>>,
                     <<TxOut(ExpectedAmount, ExpectedScript), TxOut(BTC, ChangeScript)>>), 0),
     ClientConfig(Tx(2, 0, <<TxIn(SenderUtxo, "0xFFFFFFFE", EmptyScript, <<>>),
                             TxIn(SenderUtxo2, "0xFFFFFFFE", EmptyScript, <<>>)>>,
                     <<TxOut(BTC, ChangeScript), TxOut(ExpectedAmount, ExpectedScript)>>), 1),
     ClientConfig(Tx(2, 0, <<TxIn(SenderUtxo2, "0xFFFFFFFE", EmptyScript, <<>>)>>,
                     <<TxOut(1000, ChangeScript), TxOut(ExpectedAmount, ExpectedScript)>>), 1)}

\* the receiver's side and the stream: c2s the lines written by the sender
\* and not yet read by the receiver, s2c the other direction
Live(state, res, step, h, p, r, c2s, s2c) ==
    [st |-> state, result |-> res, last |-> step, hist |-> h, pc |-> p, ret |-> r,
     c2s |-> c2s, s2c |-> s2c]

LiveInit ==
    /\ role = "client"
    /\ cfg \in HonestConfigs
    /\ pc = "idle"
    /\ st = [s |-> ""]
    /\ result = Running
    /\ last = NoStep
    /\ hist = NoHist
    /\ ret = Running
    /\ sessions = 0
    /\ live = 0
    /\ broadcasts = <<>>
    /\ peerClosed = FALSE
    /\ twin = Live([s |-> ""], Running, NoStep, NoHist, "idle", Running, <<>>, <<>>)

\* the stream after an endpoint has read from the queue `from` and written
\* the frame of its step (if any) to the queue `to`
Sent(to, step) ==
    IF step.w.t # "None" /\ step.wok THEN Append(to, JsonLine(AsJson(step.w, "1"))) ELSE to
Taken(from) == IF from # <<>> THEN Tail(from) ELSE from

\* read_line on the queue `from`: its first line, or 0 bytes once the peer
\* has dropped the stream
LiveRead(from) == IF from # <<>> THEN ReadLine(Head(from), TRUE) ELSE ReadEof

\* the endpoint whose position is p has dropped its end of the stream
Dropped(p, state) == p \in {"ended", "returned", "panicked"} \/ (p = "idle" /\ state.s # "")

\* the guards of the two loops: a line has arrived or the peer has dropped
\* the stream
SenderCanRead == pc = "loop" /\ (twin.s2c # <<>> \/ Dropped(twin.pc, twin.st))
ReceiverCanRead == twin.pc = "loop" /\ (twin.c2s # <<>> \/ Dropped(pc, st))

\* JsonRpc::mainloop of the sender up to its loop: the Version request
LiveSetup ==
    /\ pc = "setup"
    /\ result' = Running
    /\ last' = Step(st, Running, NoRead, NoMsg, "setup", NoError, <<>>, StateSetup(role), TRUE)
    /\ hist' = HistAfter(hist, role, last')
    /\ pc' = "loop"
    /\ twin' = [twin EXCEPT !.c2s = Sent(@, last')]
    /\ UNCHANGED <<role, cfg, st, ret, sessions, live, broadcasts, peerClosed>>

\* Server::mainloop: accept, ServerState::new, JsonRpc::new and the
\* receiver's setup, which sends nothing
LiveAccept ==
    /\ twin.pc = "idle"
    /\ twin.st.s = ""
    /\ pc # "idle"
    /\ twin' = [twin EXCEPT !.pc = "loop", !.st = ServerWaitingVersion]
    /\ UNCHANGED <<role, cfg, pc, st, result, last, hist, ret, sessions, live,
                   broadcasts, peerClosed>>

\* one iteration of the sender's loop
LiveSenderIterate ==
    /\ SenderCanRead
    /\ Iterated(LoopIteration(role, cfg, st, LiveRead(twin.s2c), OracleOk, 0, TRUE),
                twin.s2c = <<>>)
    /\ twin' = [twin EXCEPT !.s2c = Taken(@), !.c2s = Sent(@, last')]
    /\ UNCHANGED <<role, cfg, ret, sessions>>

\* what one iteration of the receiver's loop leaves behind
LiveReceived(step) ==
    /\ twin' = Live(step.st, step.result, step, HistAfter(twin.hist, "server", step),
                    PcAfter(step.result), twin.ret, Taken(twin.c2s), Sent(twin.s2c, step))
    /\ broadcasts' = broadcasts \o Broadcast(step)

\* one iteration of the receiver's loop
LiveReceiverIterate ==
    /\ ReceiverCanRead
    /\ \E pos \in Positions("server", twin.st) :
         LiveReceived(LoopIteration("server", NoConfig, twin.st, LiveRead(twin.c2s),
                                    OracleOk, pos, TRUE))
    /\ UNCHANGED <<role, cfg, pc, st, result, last, hist, ret, sessions, live, peerClosed>>

\* Server::mainloop: match jsonrpc.mainloop().await { Ok(_) => break, Err(e) => warn }
LiveReceiverReturns ==
    /\ twin.pc = "ended"
    /\ twin' = [twin EXCEPT
                  !.pc = IF twin.result.r = "Ok" THEN "returned" ELSE "idle",
                  !.ret = IF twin.result.r = "Ok" THEN SessOk([unit |-> TRUE]) ELSE @]
    /\ UNCHANGED <<role, cfg, pc, st, result, last, hist, ret, sessions, live,
                   broadcasts, peerClosed>>

LiveNext ==
    \/ Start
    \/ LiveSetup
    \/ LiveAccept
    \/ LiveSenderIterate
    \/ LiveReceiverIterate
    \/ LiveReceiverReturns
    \/ StartReturns

\* each endpoint is a task of its own runtime and takes the step it can take:
\* weak fairness of every action, the enabling condition of the two loop
\* iterations being written out as their guard
SpecLive ==
    /\ LiveInit
    /\ [][LiveNext]_vars
    /\ WF_vars(Start)
    /\ WF_vars(LiveSetup)
    /\ WF_vars(StartReturns)
    /\ WF_vars(LiveAccept)
    /\ WF_vars(LiveReceiverReturns)
    /\ ([]<>(~SenderCanRead) \/ []<><<LiveSenderIterate>>_vars)
    /\ ([]<>(~ReceiverCanRead) \/ []<><<LiveReceiverIterate>>_vars)

(***************************************************************************)
(* The transaction pipeline and the codec on their own: an input is drawn  *)
(* and the function it is an input of is applied to it.  st is the input   *)
(* (k its kind, x the transaction, meta or message, o the oracle view, id  *)
(* the frame's id), result what the function returned.                     *)
(***************************************************************************)
PipeInput(k, x, o, id) == [k |-> k, x |-> x, o |-> o, id |-> id]

\* the base transactions ProofTransaction::<Created> is given: the honest
\* ones, wrong versions and lock times, inputs that arrive with a script_sig
\* and a witness, an input the signer holds no key for
PipeBases ==
    {c.base_transaction : c \in HonestConfigs}
      \cup {[BaseTx EXCEPT !.version = 1],
            [BaseTx EXCEPT !.lock_time = 5],
            [BaseTx EXCEPT !.version = 3, !.lock_time = 5],
            [BaseTx EXCEPT !.input[1].script_sig = Script("sig", "x"),
                           !.input[1].witness = <<JunkItem>>],
            [BaseTx EXCEPT !.version = 1, !.input[1].previous_output = OutPoint("td", 0)]}

\* the proof transaction over the previous outputs pos, signed on the inputs
\* the sender holds the key for
ProofOver(pos) ==
    Sign(SenderSigner,
         Tx(2, 0, [j \in 1..Len(pos) |-> TxIn(pos[j], "0xFFFFFFFE", EmptyScript, <<>>)],
            <<TxOut(ProofOutputValue, EmptyScript)>>),
         {i \in 0..(Len(pos) - 1) : pos[i + 1] \in SenderSigner.metadata}, OracleOk).v

GoodProof2 == ProofOver(<<SenderUtxo2, SenderUtxo>>)

\* the witnesses a peer may put on input j of the proof p in place of w: too
\* few items, an empty or malformed signature, a malformed or another public
\* key, the signature of the other input, a third item, another key pair
WitnessShapes(w, other) ==
    {<<>>, <<w[1]>>, <<EmptyItem>>, <<EmptyItem, w[2]>>, <<JunkItem, w[2]>>,
     <<w[1], JunkItem>>, <<w[1], PubItem("kx")>>, <<other[1], w[2]>>,
     <<w[1], w[2], JunkItem>>, <<SigItem("kx", w[1].h), PubItem("kx")>>}

\* the transactions ProofTransaction::<Validated> is given
PipeProofs ==
    {ProofOver(pos) :
        pos \in {<<>>, <<SenderUtxo>>, <<SenderUtxo2, SenderUtxo>>,
                 <<OutPoint("ta", 7), SenderUtxo>>, <<SenderUtxo, OutPoint("ta", 7)>>,
                 <<OutPoint("ta", 1), SenderUtxo>>, <<SenderUtxo, OutPoint("ta", 1)>>,
                 <<OutPoint("ta", 7), OutPoint("ta", 1)>>,
                 <<OutPoint("ta", 1), OutPoint("ta", 7)>>}}
      \cup {[GoodProof2 EXCEPT !.input[1].witness = w] :
               w \in WitnessShapes(GoodProof2.input[1].witness, GoodProof2.input[2].witness)}
      \cup {[GoodProof2 EXCEPT !.input[2].witness = w] :
               w \in WitnessShapes(GoodProof2.input[2].witness, GoodProof2.input[1].witness)}
      \cup {[GoodProof2 EXCEPT !.input[1].witness = w1, !.input[2].witness = w2] :
               w1 \in {<<JunkItem, GoodProof2.input[1].witness[2]>>,
                       <<EmptyItem, GoodProof2.input[1].witness[2]>>},
               w2 \in {<<>>, <<EmptyItem, GoodProof2.input[2].witness[2]>>}}
      \cup {[GoodProof2 EXCEPT !.version = 1],
            [GoodProof2 EXCEPT !.lock_time = 1],
            [GoodProof2 EXCEPT !.version = 1, !.lock_time = 1],
            [GoodProof2 EXCEPT !.output = <<>>],
            [GoodProof2 EXCEPT !.output = <<GoodProof2.output[1], GoodProof2.output[1]>>],
            [GoodProof2 EXCEPT !.output[1].value = BTC],
            [GoodProof2 EXCEPT !.output[1].script_pubkey = ChangeScript],
            [GoodProof2 EXCEPT !.lock_time = 1, !.output = <<>>],
            [GoodProof2 EXCEPT !.version = 1, !.input[1].witness = <<>>],
            [GoodProof2 EXCEPT !.output = <<>>,
                               !.input[1].witness =
                                   <<EmptyItem, GoodProof2.input[1].witness[2]>>]}

\* how the oracles answer a validation
PipeOracles ==
    {OracleOk,
     [OracleOk EXCEPT !.spent = {SenderUtxo}],
     [OracleOk EXCEPT !.spent = {SenderUtxo2}],
     [OracleOk EXCEPT !.spent = {SenderUtxo, SenderUtxo2}],
     [OracleOk EXCEPT !.getTxErr = TRUE],
     [OracleOk EXCEPT !.unspentErr = TRUE]}

\* the FinalTransactionMeta FinalTransaction::<Unsigned> is given: one or two
\* proof inputs, fees below, at and above what the sender's inputs leave,
\* every index up to MaxIndex, a receiver input with another sequence, with
\* a witness, or past the outputs of its previous transaction
PipeMetas ==
    {FinalTransactionMeta(tx, fees, ChangeScript, rtxin, rii, OurTxout, roi) :
        tx \in {GoodProof, GoodProof2},
        fees \in {ClientFees, BTC - ExpectedAmount, BTC - ExpectedAmount + 1, 2 * BTC},
        rtxin \in {TxIn(OurUtxo, SeqFinal, EmptyScript, <<>>),
                   TxIn(OurUtxo, "0xFFFFFFFE", EmptyScript, <<>>),
                   TxIn(OurUtxo, SeqFinal, EmptyScript, <<JunkItem>>),
                   TxIn(OutPoint("tr", 4), SeqFinal, EmptyScript, <<>>)},
        rii \in 0..MaxIndex, roi \in 0..MaxIndex}

\* how the chain answers a construction, and how the build adds
PipeChains ==
    {OracleOk,
     [OracleOk EXCEPT !.getTxErr = TRUE],
     [OracleOk EXCEPT !.rich = TRUE],
     [OracleOk EXCEPT !.rich = TRUE, !.checked = TRUE]}

\* the messages Message::as_json is given: every shape, every ProtocolError
PipeFrames ==
    {ReqVersion(VERSION), ReqVersion(""), ReqProof(GoodProof), ReqProof(GoodProof2),
     ReqWitnesses(ClientFees, ChangeScript, 1, 1,
                  <<<<WitnessWrapper(GoodProof.input[1].witness)>>,
                    <<WitnessWrapper(GoodProof2.input[1].witness),
                      WitnessWrapper(GoodProof2.input[2].witness)>>>>),
     ReqWitnesses(0, EmptyScript, 0, 0, <<>>),
     RespVersion(VERSION), RespVersion("2.0"), RespTxid(Txid(BaseTx), BaseTx),
     RespTxid(Txid(GoodProof2), GoodProof2)}
      \cup {RespUtxos(l) : l \in CandidateLists}
      \cup {MsgError(pe) :
               pe \in {UnexpectedMessage, Expected("VERSION"), Expected(""),
                       InvalidVersion("2.0"), InvalidProof("InvalidVersion", -1),
                       InvalidProof("MissingUTXO", 1), InvalidProof("InvalidInputSignature", 0),
                       InvalidFinalTransaction("NegativeSenderAmount"),
                       InvalidFinalTransaction("InvalidWitness"), InvalidUtxo, MissingData}}

\* the FinalTransaction::<Unsigned> the adoption of witnesses is given: built
\* over a proof of one or two inputs, the receiver's input at every index
PipeUnsigned ==
    {r.v : r \in {u \in {FinalUnsigned(
                              FinalTransactionMeta(tx, ClientFees, ChangeScript,
                                                   TxIn(OurUtxo, SeqFinal, EmptyScript, <<>>),
                                                   rii, OurTxout, roi), OracleOk) :
                            tx \in {GoodProof, GoodProof2}, rii \in 0..2, roi \in 0..1} :
                     u.ok}}

\* the bundles a peer may send for the final transaction ft, h being the
\* bundle of the sender's signing: all of it, its first witness only, none,
\* one too many, one witness that does not deserialize
PipeBundles(ft, h) ==
    {h, SubSeq(h, 1, 1), <<>>, Append(h, WitnessWrapper(<<JunkItem>>)),
     <<BadWitness>> \o Tail(h), Append(SubSeq(h, 1, Len(h) - 1), BadWitness)}

PipeAdoptions ==
    {[ft |-> ft, witnesses |-> b] :
        ft \in PipeUnsigned,
        b \in UNION {PipeBundles(s.v, ThisUtxoWitnesses(s.v)) :
                        s \in {r \in {FinalSenderSignedBySigner(u, SenderSigner, OracleOk) :
                                         u \in PipeUnsigned} : r.ok}}}

\* the FinalTransaction::<SenderSigned> the receiver's signing is given: the
\* adoption of the sender's bundle, or of witnesses that are no signatures
PipeSenderSigned ==
    {s.v : s \in {r \in {FinalSenderSignedBySigner(u, SenderSigner, OracleOk) :
                                u \in PipeUnsigned}
                         \cup {FinalSenderSignedByWitnesses(
                                   u, <<WitnessWrapper(<<JunkItem>>),
                                        WitnessWrapper(<<JunkItem, JunkItem>>)>>) :
                                 u \in PipeUnsigned} : r.ok}}

\* the calls of ClientState::transition: a sender configured with an honest
\* base transaction, one with three outputs that pays the third, one whose
\* input arrives with a script_sig and a witness, or one of ClientConfigs,
\* in WaitingVersion or ServerVersion, is given a response
PipeClientCalls ==
    {[cfg |-> c, st |-> state, message |-> m] :
        c \in HonestConfigs \cup ClientConfigs
                \cup {ClientConfig([BaseTx EXCEPT !.output = Append(@, TxOut(BTC, ChangeScript))],
                                   2),
                      ClientConfig([BaseTx EXCEPT !.input[1].script_sig = Script("sig", "x"),
                                                  !.input[1].witness = <<JunkItem>>], 1)},
        state \in {ClientWaitingVersion, [s |-> "ServerVersion", version |-> VERSION]},
        m \in {r \in ClientPeerMessages : r.t = "Response"}}

\* a proof that spends the sender's output and the receiver's our_utxo, the
\* latter under a key pair of the sender's making
ProofOverOurs ==
    Sign([key |-> "kx", metadata |-> {OurUtxo}], ProofOver(<<SenderUtxo, OurUtxo>>), {1},
         OracleOk).v

\* the states ClientProof a receiver can be in: a proof that went through
\* the validation, the candidate list, and the position drawn
PipeClientProofs ==
    {[s |-> "ClientProof", version |-> VERSION, proof |-> p,
      utxos |-> Insert(Decoys(NPositions - 1), pos, OurUtxo), our_utxo_position |-> pos] :
        p \in {q \in {GoodProof, GoodProof2, ProofOverOurs,
                      [GoodProof2 EXCEPT !.input[1].witness =
                           <<SigItem("kx", GoodProof2.input[1].witness[1].h), PubItem("kx")>>]} :
                 ProofValidated(q, OracleOk).ok},
        pos \in {0, 1, NPositions - 1}}

\* the calls of ServerState::transition in ClientProof: the Witnesses
\* requests of WitnessesVariants, and the honest one with no fees, with the
\* receiver's script as change script, with the receiver's input first
PipeServerCalls ==
    {[st |-> state, message |-> m] :
        state \in PipeClientProofs,
        m \in WitnessesVariants(HonestWitnesses(<<OurUtxo>>), 1)
                \cup {[HonestWitnesses(<<OurUtxo>>) EXCEPT !.witnesses = w] :
                         w \in {[k \in 1..NPositions |->
                                    <<WitnessWrapper(<<JunkItem>>),
                                      WitnessWrapper(GoodProof.input[1].witness)>>]}}
                \cup {[m0 EXCEPT !.witnesses = [k \in 1..NPositions |-> @[1]]] :
                         m0 \in {HonestWitnesses(<<OurUtxo>>),
                                 [HonestWitnesses(<<OurUtxo>>) EXCEPT !.fees = 0],
                                 [HonestWitnesses(<<OurUtxo>>) EXCEPT
                                     !.change_script = ExpectedScript],
                                 [HonestWitnesses(<<OurUtxo>>) EXCEPT
                                     !.receiver_input_position = 0],
                                 [HonestWitnesses(<<OurUtxo>>) EXCEPT
                                     !.receiver_output_position = 0]}}
                \cup {ReqVersion(VERSION), ReqProof(GoodProof)}}

PipeInputs ==
    {PipeInput("adopt", a, OracleOk, "") : a \in PipeAdoptions}
      \cup
    {PipeInput("server", c, o, "") :
        c \in PipeServerCalls,
        o \in {OracleOk, [OracleOk EXCEPT !.bcastErr = TRUE],
               [OracleOk EXCEPT !.signErr = TRUE], [OracleOk EXCEPT !.rich = TRUE]}}
      \cup
    {PipeInput("client", c, o, "") :
        c \in PipeClientCalls,
        o \in {OracleOk, [OracleOk EXCEPT !.spent = {OutPoint("td", 3)}],
               [OracleOk EXCEPT !.getTxErr = TRUE], [OracleOk EXCEPT !.signErr = TRUE]}}
      \cup
    {PipeInput("sign", ft, o, "") :
        ft \in PipeSenderSigned, o \in {OracleOk, [OracleOk EXCEPT !.signErr = TRUE]}}
      \cup
    {PipeInput("base", tx, o, "") :
        tx \in PipeBases, o \in {OracleOk, [OracleOk EXCEPT !.signErr = TRUE]}}
      \cup {PipeInput("proof", tx, o, "") : tx \in PipeProofs, o \in PipeOracles}
      \cup {PipeInput("meta", meta, o, "") : meta \in PipeMetas, o \in PipeChains}
      \cup {PipeInput("frame", m, OracleOk, id) : m \in PipeFrames, id \in {"1", "42", ""}}

PipeInit ==
    /\ role = "pipe"
    /\ cfg = NoConfig
    /\ pc = "input"
    /\ st \in PipeInputs
    /\ result = Running
    /\ last = NoStep
    /\ hist = NoHist
    /\ ret = Running
    /\ sessions = 0
    /\ live = 0
    /\ broadcasts = <<>>
    /\ peerClosed = FALSE
    /\ twin = NoTwin

\* what applying a function leaves behind
Applied(out) ==
    /\ pc' = "applied"
    /\ result' = out
    /\ UNCHANGED <<role, cfg, st, last, hist, ret, sessions, live, broadcasts,
                   peerClosed, twin>>

\* ProofTransaction::<Created>::try_from((tx, signer))
ApplyProofCreated ==
    /\ pc = "input"
    /\ st.k = "base"
    /\ Applied(ProofCreated(st.x, SenderSigner, st.o))

\* ProofTransaction::<Validated>::try_from((tx, blockchain))
ApplyProofValidated ==
    /\ pc = "input"
    /\ st.k = "proof"
    /\ Applied(ProofValidated(st.x, st.o))

\* FinalTransaction::<Unsigned>::try_from((meta, blockchain))
ApplyFinalUnsigned ==
    /\ pc = "input"
    /\ st.k = "meta"
    /\ Applied(FinalUnsigned(st.x, st.o))

\* FinalTransaction::<SenderSigned>::try_from((unsigned, &witnesses))
ApplyAdoption ==
    /\ pc = "input"
    /\ st.k = "adopt"
    /\ Applied(FinalSenderSignedByWitnesses(st.x.ft, st.x.witnesses))

\* FinalTransaction::<Signed>::try_from((sender_signed, signer))
ApplyFinalSigned ==
    /\ pc = "input"
    /\ st.k = "sign"
    /\ Applied(FinalSigned(st.x, ReceiverSigner, st.o))

\* ClientState::transition(message)
ApplyClientTransition ==
    /\ pc = "input"
    /\ st.k = "client"
    /\ Applied(ClientTransition(st.x.cfg, st.x.st, st.x.message, st.o))

\* ServerState::transition(message) in ClientProof
ApplyServerTransition ==
    /\ pc = "input"
    /\ st.k = "server"
    /\ Applied(ServerTransition(st.x.st, st.x.message, st.o, 0))

\* serde_json::from_str::<Message> of the line that holds message.as_json(id)
ApplyRoundTrip ==
    /\ pc = "input"
    /\ st.k = "frame"
    /\ Applied([json |-> AsJson(st.x, st.id),
                parsed |-> ParseLine(JsonLine(AsJson(st.x, st.id)))])

PipeNext ==
    \/ ApplyProofCreated
    \/ ApplyAdoption
    \/ ApplyServerTransition
    \/ ApplyClientTransition
    \/ ApplyFinalSigned
    \/ ApplyProofValidated
    \/ ApplyFinalUnsigned
    \/ ApplyRoundTrip

SpecPipe == PipeInit /\ [][PipeNext]_vars

(***************************************************************************)
(* Properties                                                              *)
(***************************************************************************)
\* a pipeline stage of the Witnesses request returned an error
StageFailed(step) ==
    \E i \in 1..Len(step.ev) :
        step.ev[i].k \in {"unsigned", "sender_signed", "signed"} /\ ~step.ev[i].ok

\* the transition of the step raised a Protocol error
RaisedProtocol(step) == step.tkind = "err" /\ step.terr.k = "Protocol"

\* an oracle call failed inside the transition of the step
OracleFailed(step) == step.tkind = "err" /\ step.terr.k \in {"Chain", "Signer"}

\* C1: in a receiver session a Utxos response is emitted only by a step whose
\* Proof request passed validation; once a validation has failed in the
\* session no Utxos response is emitted and pick_decoys is not called
C1_UtxosOnlyAfterValidation ==
    role = "server" =>
      /\ (last.w.m = "utxos" => HasEvent(last, "validate", TRUE))
      /\ (hist.valFailed =>
            last.w.m # "utxos" /\ EventsOf(last, "pick_decoys") = {})

\* the two sessions' candidate lists are the same apart from where our_utxo
\* sits
SameCandidates(step, step2) ==
    RemoveAt(step.w.utxos, step.st.our_utxo_position)
      = RemoveAt(step2.w.utxos, step2.st.our_utxo_position)

\* C2: two receiver sessions that get the same frames and differ only in
\* our_utxo_position emit the same Utxos list apart from where our_utxo
\* sits, and a Witnesses request that leads to no broadcast has the same
\* outcome (frame written, session result) in both
C2_PositionNotRevealed ==
    /\ (last.w.m = "utxos" /\ twin.last.w.m = "utxos" => SameCandidates(last, twin.last))
    /\ ((/\ last.msg.m = "WITNESSES"
         /\ twin.last.msg.m = "WITNESSES"
         /\ EventsOf(last, "broadcast") = {}
         /\ EventsOf(twin.last, "broadcast") = {})
        => (last.w = twin.last.w /\ last.result = twin.last.result))

C4_StageFailureAborts ==
    role = "server" =>
      /\ (EventsOf(last, "broadcast") # {} =>
            /\ HasEvent(last, "unsigned", TRUE)
            /\ HasEvent(last, "sender_signed", TRUE)
            /\ HasEvent(last, "signed", TRUE))
      /\ (StageFailed(last) =>
            /\ EventsOf(last, "broadcast") = {}
            /\ last.w.m # "txid"
            /\ last.w.t = "Error"
            /\ last.w.error.e = "INVALIDFINALTRANSACTION"
            /\ result.r = "Err")

\* C5: over one Server::mainloop broadcast succeeds at most once, and once it
\* has succeeded no session is running any more
C5_BroadcastAtMostOnce ==
    role = "server" =>
      /\ Len(broadcasts) <= 1
      /\ (broadcasts # <<>> => pc \notin {"setup", "loop"})

\* C6: a receiver listener runs at most one session at any time, and a
\* session is running exactly while its RPC loop has not returned
C6_OneSessionAtATime ==
    role = "server" =>
      /\ live <= 1
      /\ (live = 1 <=> pc \in {"setup", "loop"})

\* a second session is running after the first one's loop returned an error
C6_Witness ==
    /\ role = "server"
    /\ sessions = 2
    /\ live = 1
    /\ pc = "loop"
    /\ hist.nIn > 0

\* C7: when a transition raises a Protocol error the endpoint attempts the
\* write of the error frame carrying it and the session returns that same
\* Protocol error, whether or not the write succeeded
C7_ProtocolErrorReturned ==
    RaisedProtocol(last) =>
      /\ last.w = MsgError(last.terr.pe)
      /\ result = SessErr(last.terr)

\* C8: when an oracle call fails inside a transition the session ends there
\* and returns that error; the loop reads no further frame
C8_OracleErrorEndsSession ==
    /\ (OracleFailed(last) => result = SessErr(last.terr))
    /\ (hist.swallowed => pc # "loop")

\* what a session whose read, parse or peer ended it must return; NoError
\* when the step's message went to the FSM
ReadFailure(step) ==
    CASE step.rd.r = "timeout" -> ErrTimeout
      [] step.rd.r = "io" -> ErrIO
      [] step.rd.r = "eof" -> ErrEOF
      [] step.rd.r = "line" /\ step.msg.t = "None" -> ErrSerde
      [] step.rd.r = "line" /\ step.msg.t = "Error" -> PeerError(step.msg.error)
      [] OTHER -> NoError

\* the iteration that has just run ended the session on its read, leaving
\* the FSM state alone and writing nothing
EndedOnRead ==
    /\ result' = SessErr(ReadFailure(last'))
    /\ st' = st
    /\ last'.w = NoMsg
    /\ pc' = "ended"

\* C9 (as stated): a timeout, an I/O error, the end of the stream, a line
\* that does not parse or an error frame from the peer ends the session
\* with Timeout, IO, EOF, the encoding error or PeerError, the FSM state is
\* not changed and nothing is written; a frame that never receives its
\* newline ends in Timeout
C9_ReadFailureEndsSession ==
    [][hist'.nRead = hist.nRead + 1 =>
         /\ (ReadFailure(last') # NoError => EndedOnRead)
         /\ (last'.rd.partial \/ (last'.rd.r = "line" /\ ~last'.rd.nl) =>
               result' = SessErr(ErrTimeout))]_vars

\* C9 (amended): as above, but a frame that never receives its newline ends
\* in Timeout only while the stream stays open; when the stream ends first
\* the text is handed to the parser as a line
C9_ReadFailureEndsSessionOpen ==
    [][hist'.nRead = hist.nRead + 1 =>
         /\ (ReadFailure(last') # NoError => EndedOnRead)
         /\ (last'.rd.partial => result' = SessErr(ErrTimeout))
         /\ (last'.rd.r = "line" /\ ~last'.rd.nl => peerClosed')]_vars

\* after some frames were exchanged, part of a frame arrived and the read
\* timed out
C9_Witness ==
    /\ hist.nIn > 0
    /\ last.rd.r = "timeout"
    /\ last.rd.partial
    /\ result = SessErr(ErrTimeout)
    /\ pc = "ended"

\* C10: the sender's first frame is VERSION{"1.0"} and its requests sent
\* never exceed the responses received plus one; the receiver's frames
\* never exceed the requests received
C10_NoPipelining ==
    /\ (role = "client" =>
          /\ (hist.nOut > 0 => hist.first = ReqVersion(VERSION))
          /\ hist.nOutMsg <= hist.nIn + 1)
    /\ (role = "server" => hist.nOut <= hist.nIn)

\* the sender has sent its three requests on two responses
C10_Witness ==
    /\ role = "client"
    /\ hist.nOutMsg = 3
    /\ hist.nIn = 2
    /\ last.w.m = "WITNESSES"

\* the sender's loop has just changed the FSM state from a to b on the
\* message m, writing the frame w
ClientMoved(a, b, m, w) ==
    /\ st.s = a
    /\ st'.s = b
    /\ last'.msg.m = m
    /\ last'.w.m = w

\* C11: the sender FSM's state changes only one step forward at a time, on
\* Response::Version with "1.0", Response::Utxos and Response::Txid, each
\* forward step coincides with the emission of the matching request (Proof,
\* then Witnesses), and the session returns success only in ServerTxid
C11_SenderOneStepForward ==
    /\ [](role = "client" /\ result.r = "Ok" => st.s = "ServerTxid")
    /\ [][role = "client" /\ pc = "loop" /\ st'.s # st.s =>
            \/ (ClientMoved("WaitingVersion", "ServerVersion", "version", "PROOF")
                  /\ last'.msg.version = VERSION)
            \/ ClientMoved("ServerVersion", "ServerUtxos", "utxos", "WITNESSES")
            \/ ClientMoved("ServerUtxos", "ServerTxid", "txid", "")]_vars

\* the receiver's loop has just changed the FSM state from a to b on the
\* message m
ServerMoved(a, b, m) ==
    /\ st.s = a
    /\ st'.s = b
    /\ last'.msg.m = m

\* C12: the receiver FSM's state changes only one step forward at a time, on
\* Request::Version with "1.0", on a Proof request that validates and on a
\* Witnesses request whose final transaction was broadcast, and the session
\* returns success only in ClientWitnesses
C12_ReceiverOneStepForward ==
    /\ [](role = "server" /\ result.r = "Ok" => st.s = "ClientWitnesses")
    /\ [][role = "server" /\ pc = "loop" /\ st'.s # st.s =>
            \/ (ServerMoved("WaitingVersion", "ClientVersion", "VERSION")
                  /\ last'.msg.version = VERSION)
            \/ (ServerMoved("ClientVersion", "ClientProof", "PROOF")
                  /\ HasEvent(last', "validate", TRUE))
            \/ (ServerMoved("ClientProof", "ClientWitnesses", "WITNESSES")
                  /\ HasEvent(last', "broadcast", TRUE))]_vars

\* a receiver session went through its three requests and returned success
C12_Witness ==
    /\ role = "server"
    /\ st.s = "ClientWitnesses"
    /\ hist.nIn = 3
    /\ last.msg.m = "WITNESSES"
    /\ result.r = "Ok"

\* C13: every Utxos response the receiver emits holds exactly 100 pairwise
\* distinct outpoints, and our_utxo sits at the our_utxo_position recorded
\* in the ClientProof state, which lies in [0, 100)
C13_CandidateList ==
    role = "server" /\ last.w.m = "utxos" =>
      /\ Len(last.w.utxos) = NPositions
      /\ Cardinality({last.w.utxos[i] : i \in 1..Len(last.w.utxos)}) = Len(last.w.utxos)
      /\ last.st.s = "ClientProof"
      /\ last.st.our_utxo_position \in 0..(NPositions - 1)
      /\ last.w.utxos[last.st.our_utxo_position + 1] = OurUtxo

\* pick_decoys returned fewer than 99 outpoints in the step
TooFewDecoys(step) ==
    \E i \in EventsOf(step, "pick_decoys") :
        step.ev[i].ok /\ step.ev[i].x < NPositions - 1

\* C14: when pick_decoys returns fewer than 99 outpoints the receiver emits
\* the MISSINGDATA error frame and no Utxos response, does not advance to
\* ClientProof, and the session ends
C14_TooFewDecoysAborts ==
    role = "server" /\ TooFewDecoys(last) =>
      /\ last.w = MsgError(MissingData)
      /\ last.st.s = "ClientVersion"
      /\ result.r = "Err"

\* the sender's loop over the candidates of the step stopped at a candidate
\* for which is_unspent returned false
SpentCandidate(step) ==
    /\ step.msg.m = "utxos"
    /\ HasEvent(step, "witnesses", FALSE)
    /\ step.terr = Protocol(InvalidUtxo)

\* C15: when is_unspent returns false for a candidate of the Utxos response
\* the sender sends no WITNESSES request (the error frame INVALIDUTXO is
\* what it writes), stays in ServerVersion, and the session ends with
\* InvalidUtxo
C15_SpentCandidateAborts ==
    role = "client" /\ SpentCandidate(last) =>
      /\ last.w = MsgError(InvalidUtxo)
      /\ last.st.s = "ServerVersion"
      /\ result = SessErr(Protocol(InvalidUtxo))

\* the first message handed to the FSM was a version message of direction t
\* whose version string is not "1.0"
FirstIsOtherVersion(t) ==
    /\ hist.nIn = 1
    /\ last.msg.t = t
    /\ last.msg.m \in {"VERSION", "version"}
    /\ last.msg.version # VERSION

\* the step raised InvalidVersion(v), wrote its error frame and nothing
\* else, left the FSM in WaitingVersion, and the session has ended
RefusedVersion(v) ==
    /\ last.terr = Protocol(InvalidVersion(v))
    /\ last.w = MsgError(InvalidVersion(v))
    /\ last.st.s = "WaitingVersion"
    /\ hist.nOutMsg = (IF role = "client" THEN 1 ELSE 0)
    /\ result.r = "Err"
    /\ pc # "loop"

\* C16: a first VERSION request with a version other than "1.0" leaves the
\* receiver in WaitingVersion, which emits the error frame INVALIDVERSION(v)
\* and no response and ends its session; a sender that reads the
\* INVALIDVERSION(v) error frame as the answer to its VERSION request ends
\* with PeerError(InvalidVersion(v)) and sends no Proof; a sender that gets Response::Version with another version
\* raises InvalidVersion(v) and sends no Proof
C16_VersionMismatch ==
    /\ (role = "server" /\ FirstIsOtherVersion("Request") => RefusedVersion(last.msg.version))
    /\ (role = "client" /\ FirstIsOtherVersion("Response") => RefusedVersion(last.msg.version))
    /\ (role = "client" /\ hist.nRead = 1 /\ last.msg.t = "Error"
          /\ last.msg.error.e = "INVALIDVERSION" =>
          /\ result = SessErr(PeerError(last.msg.error))
          /\ last.w = NoMsg
          /\ hist.nOutMsg = 1
          /\ pc # "loop")

\* a receiver got VERSION{"2.0"} first, wrote the error frame and ended
C16_Witness ==
    /\ role = "server"
    /\ last.msg = ReqVersion("2.0")
    /\ last.w = MsgError(InvalidVersion("2.0"))
    /\ last.wok
    /\ st.s = "WaitingVersion"
    /\ result = SessErr(Protocol(InvalidVersion("2.0")))

\* the tag of the one kind of message the FSM of endpoint r accepts in the
\* non-terminal state s
ExpectedTag(r, s) ==
    CASE s = "WaitingVersion" -> "VERSION"
      [] r = "server" /\ s = "ClientVersion" -> "PROOF"
      [] r = "server" /\ s = "ClientProof" -> "WITNESSES"
      [] r = "client" /\ s = "ServerVersion" -> "UTXOS"
      [] r = "client" /\ s = "ServerUtxos" -> "TXID"

\* the last call raised the Protocol error pe, left the FSM state alone and
\* returned no request or response
Rejected(pe) ==
    /\ last'.tkind = "err"
    /\ last'.terr = Protocol(pe)
    /\ st' = st
    /\ last'.w = NoMsg

\* the kind of a message, in the upper case of the tags
Kind(m) ==
    CASE m = "version" -> "VERSION"
      [] m = "utxos" -> "UTXOS"
      [] m = "txid" -> "TXID"
      [] OTHER -> m

\* C17: in a non-terminal state a message of the right direction but of
\* another kind than the one the state accepts raises Expected with the tag
\* of that kind, in a terminal state any message raises UnexpectedMessage,
\* and in these cases the FSM state is unchanged and nothing is emitted
C17_WrongKindRejected ==
    [][hist'.nIn = hist.nIn + 1 =>
         /\ (st.s \in {"ClientWitnesses", "ServerTxid"} => Rejected(UnexpectedMessage))
         /\ (st.s \notin {"ClientWitnesses", "ServerTxid"}
               /\ Kind(last'.msg.m) # ExpectedTag(role, st.s)
             => Rejected(Expected(ExpectedTag(role, st.s))))]_vars

\* a receiver FSM in its terminal state was handed one more request
C17_Witness ==
    /\ pc = "fsm"
    /\ role = "server"
    /\ st.s = "ClientWitnesses"
    /\ hist.nIn = 4
    /\ last.terr = Protocol(UnexpectedMessage)

\* C18: a well-formed frame of the wrong direction (a Response on the
\* receiver, a Request on the sender) is not handed to the FSM, the session
\* ends with the error ProtocolError::UnexpectedMessage and the endpoint
\* does not crash
C18_WrongDirectionRejected ==
    last.rd.r = "line" /\ last.msg.t \in {"Request", "Response"}
      /\ last.msg.t # InDirection(role) =>
        /\ last.tkind = ""
        /\ last.result = SessErr(Protocol(UnexpectedMessage))
        /\ pc # "panicked"

\* C19: a line that is empty once trimmed is skipped: the FSM is not driven,
\* nothing is written and the session goes on to read the next line
C19_BlankLineSkipped ==
    last.rd.r = "line" /\ last.rd.kind = "blank" =>
      /\ last.tkind = ""
      /\ last.w = NoMsg
      /\ last.result = Running

\* C20: in one session the receiver produces the candidate list at most
\* once, takes at most one Witnesses request into the pipeline of the final
\* transaction, and builds and signs at most one final transaction
C20_OneFinalTransaction ==
    role = "server" =>
      /\ hist.nLists <= 1
      /\ hist.nWitnesses <= 1
      /\ hist.nSigned <= 1

\* C21: when a receiver session has ended with an error value the listener
\* does not return and is back at accept; when a session has ended with Ok
\* the listener returns Ok(()) and accepts no further connection; the
\* listener returns only from a successful session or from a failed accept
C21_FailedSessionsDiscarded ==
    /\ [][(role = "server" /\ pc = "ended" /\ result.r # "Ok")
            => (pc' = "idle" /\ ret' = ret)]_vars
    /\ [][(role = "server" /\ pc = "ended" /\ result.r = "Ok")
            => (/\ pc' = "returned"
                /\ ret' = SessOk([unit |-> TRUE])
                /\ sessions' = sessions)]_vars
    /\ [][(role = "server" /\ pc # "returned" /\ pc' = "returned")
            => (pc = "idle" \/ (pc = "ended" /\ result.r = "Ok"))]_vars
    /\ [][(role = "server" /\ pc = "returned") => sessions' = sessions]_vars

\* the listener returned Ok(()) from its second session, the first one
\* having failed
C21_Witness ==
    /\ role = "server"
    /\ pc = "returned"
    /\ ret.r = "Ok"
    /\ sessions = 2

\* C22: with an honest sender and an honest receiver on a reliable stream and
\* oracles that succeed, both endpoints eventually return; the sender returns
\* from ServerTxid after three requests and three reads with the txid of the
\* one transaction the receiver broadcast, the receiver returns from
\* ClientWitnesses after three responses, and no error frame is written
C22_HonestSessionCompletes ==
    /\ <>(pc = "returned" /\ twin.pc = "returned")
    /\ [](pc = "returned" =>
            /\ ret.r = "Ok"
            /\ st.s = "ServerTxid"
            /\ hist.nOutMsg = 3
            /\ hist.nRead = 3
            /\ Len(broadcasts) = 1
            /\ ret.v = Txid(broadcasts[1]))
    /\ [](twin.pc = "returned" =>
            /\ twin.ret.r = "Ok"
            /\ twin.st.s = "ClientWitnesses"
            /\ twin.hist.nOutMsg = 3
            /\ twin.hist.nRead = 3)
    /\ [](twin.pc \in {"loop", "idle"} \/ twin.result.r = "Ok")
    /\ [](pc \in {"idle", "setup", "loop"} \/ result.r = "Ok")
    /\ [](last.w.t # "Error" /\ twin.last.w.t # "Error")

\* both endpoints of an honest session have returned
C22_Witness ==
    /\ pc = "returned"
    /\ twin.pc = "returned"
    /\ ret.r = "Ok"
    /\ Len(cfg.base_transaction.input) = 2

\* a FinalTransaction::<Unsigned> has been asked for, and built
UnsignedAsked == pc = "applied" /\ st.k = "meta"
UnsignedBuilt == UnsignedAsked /\ result.ok

\* the value of the previous output of input, as the chain reports it
PrevValue(input, o) ==
    GetTx(o, input.previous_output.txid).v.output[input.previous_output.vout + 1].value

\* the sum of the values vals from the i-th on, added to acc, fits a u64 at
\* every addition
RECURSIVE SumFits(_, _, _)
SumFits(vals, i, acc) ==
    i > Len(vals) \/ (~Overflows(acc, vals[i]) /\ SumFits(vals, i + 1, acc + vals[i]))

\* the sum of the values vals from the i-th on
RECURSIVE SumFrom(_, _)
SumFrom(vals, i) == IF i > Len(vals) THEN 0 ELSE vals[i] + SumFrom(vals, i + 1)

\* the change output and the receiver's output of a built transaction
ChangeOf(meta, ft) == ft.transaction.output[IF meta.receiver_output_index = 0 THEN 2 ELSE 1]
ReceiverOutOf(meta, ft) == ft.transaction.output[meta.receiver_output_index + 1]

\* value conservation of the transaction ft built from meta, the sender's
\* previous outputs being worth vals and the receiver's rprev: no addition
\* wraps, and inputs minus outputs is the fee
Conserved(meta, ft, vals, rprev) ==
    /\ SumFits(vals, 1, 0)
    /\ ~Overflows(meta.receiver_txout.value, rprev)
    /\ ChangeOf(meta, ft).value = SumFrom(vals, 1) - meta.fees - meta.receiver_txout.value
    /\ ReceiverOutOf(meta, ft).value = meta.receiver_txout.value + rprev
    /\ (SumFrom(vals, 1) - ChangeOf(meta, ft).value)
         + (rprev - ReceiverOutOf(meta, ft).value) = meta.fees

\* C23: for every FinalTransaction::<Unsigned> that is built, no u64 addition
\* of the construction wraps around, the change is the sender's input value
\* minus the fees minus the receiver's amount, the receiver's output is the
\* receiver's amount plus the value of its previous output, and the values
\* of all previous outputs minus the values of all outputs is the fees
C23_ValueConservation ==
    UnsignedBuilt =>
        Conserved(st.x, result.v,
                  [j \in 1..Len(st.x.tx.input) |-> PrevValue(st.x.tx.input[j], st.o)],
                  PrevValue(st.x.receiver_txin, st.o))

\* the shape of the transaction ft built from meta
ShapedAs(meta, ft) ==
    /\ Len(ft.transaction.input) = Len(meta.tx.input) + 1
    /\ Len(ft.transaction.output) = 2
    /\ ft.transaction.input[meta.receiver_input_index + 1] = meta.receiver_txin
    /\ ft.receiver_input_index = meta.receiver_input_index
    /\ ReceiverOutOf(meta, ft).script_pubkey = meta.receiver_txout.script_pubkey
    /\ ChangeOf(meta, ft).script_pubkey = meta.sender_script
    /\ RemoveAt(ft.transaction.input, meta.receiver_input_index) = meta.tx.input

\* C24: a meta with receiver_output_index <= 1 and receiver_input_index <=
\* the number of proof inputs is not refused for its indices, and the
\* transaction built from it has the proof's inputs plus one and two outputs,
\* the receiver's input at receiver_input_index, the receiver's output at
\* receiver_output_index and the change at the other index, and the sender's
\* inputs in their order with their previous outputs
C24_UnsignedShape ==
    (/\ UnsignedAsked
     /\ st.x.receiver_output_index <= 1
     /\ st.x.receiver_input_index <= Len(st.x.tx.input))
    => /\ result.err.pe.s \notin {"InvalidReceiverOutputIndex", "InvalidReceiverInputIndex"}
       /\ (result.ok => ShapedAs(st.x, result.v))

\* a transaction was built with the receiver's input between the sender's
\* two and the receiver's output first
C24_Witness ==
    /\ UnsignedBuilt
    /\ Len(st.x.tx.input) = 2
    /\ st.x.receiver_input_index = 1
    /\ st.x.receiver_output_index = 0

\* what the sender's inputs leave once the fees are paid is below, or is, the
\* receiver's amount
Short(siv, meta) == siv.v < meta.fees \/ siv.v - meta.fees < meta.receiver_txout.value
Exact(siv, meta) == siv.v >= meta.fees /\ siv.v - meta.fees = meta.receiver_txout.value

\* the construction on meta with the sender's input value siv ends with
\* NegativeSenderAmount exactly when the value is short, and a change of
\* zero is built
ChecksAmount(siv, meta, res) ==
    /\ (res = RErr(Protocol(InvalidFinalTransaction("NegativeSenderAmount")))
          <=> Short(siv, meta))
    /\ (Exact(siv, meta) /\ res.ok => ChangeOf(meta, res.v).value = 0)

\* C25: once the sender's input value has been summed, the construction
\* fails with NegativeSenderAmount exactly when that value is below the fees
\* or what is left after the fees is below the receiver's amount; when what
\* is left equals the receiver's amount the amount is not refused and the
\* transaction built has a change of 0
C25_NegativeSenderAmount ==
    (UnsignedAsked /\ SenderInputValueFrom(st.x.tx, 0, 0, st.o).ok)
    => ChecksAmount(SenderInputValueFrom(st.x.tx, 0, 0, st.o), st.x, result)

\* a transaction was built whose change is 0
C25_Witness ==
    /\ UnsignedBuilt
    /\ Exact(SenderInputValueFrom(st.x.tx, 0, 0, st.o), st.x)
    /\ ChangeOf(st.x, result.v).value = 0

\* the receiver's input of the transaction tx, at index i, without witness
Unwitnessed(tx, i) == [tx EXCEPT !.input[i + 1].witness = <<>>]

\* the FinalTransaction::<SenderSigned> the sender configured with c builds
\* and signs for the candidate utxo
SenderLocal(c, utxo) ==
    FinalSenderSignedBySigner(
        FinalUnsigned(
            FinalTransactionMeta(
                ProofCreated(c.base_transaction, SenderSigner, OracleOk).v, ClientFees,
                c.base_transaction.output[IF c.receiver_output_index = 0 THEN 2 ELSE 1]
                    .script_pubkey,
                TxIn(utxo, SeqFinal, EmptyScript, <<>>), Len(c.base_transaction.input),
                c.base_transaction.output[c.receiver_output_index + 1],
                c.receiver_output_index),
            OracleOk).v,
        SenderSigner, OracleOk).v.transaction

\* C26: in a session of an honest sender whose base transaction pays the
\* receiver's expected script and amount, the transaction the receiver
\* broadcasts is, its own witness on its input apart, the transaction the
\* sender built and signed locally for the candidate our_utxo: same inputs,
\* witnesses and script_sigs, same outputs
C26_AdoptedIsSendersTransaction ==
    Len(broadcasts) >= 1 =>
        Unwitnessed(broadcasts[1], Len(cfg.base_transaction.input)) = SenderLocal(cfg, OurUtxo)

\* the receiver has broadcast the transaction of a sender with two inputs,
\* having drawn a position other than the first
C26_Witness ==
    /\ Len(broadcasts) = 1
    /\ Len(cfg.base_transaction.input) = 2
    /\ twin.last.msg.m = "WITNESSES"
    /\ twin.hist.nSigned = 1
    /\ broadcasts[1].input[3].witness # <<>>

ProofShaped(tx, proof) ==
    /\ proof.version = 2
    /\ proof.lock_time = 0
    /\ proof.output = <<TxOut(ProofOutputValue, EmptyScript)>>
    /\ Len(proof.input) = Len(tx.input)
    /\ \A j \in 1..Len(tx.input) :
          /\ proof.input[j].previous_output = tx.input[j].previous_output
          /\ proof.input[j].sequence = tx.input[j].sequence
          /\ ScriptIsEmpty(proof.input[j].script_sig)
          /\ Len(proof.input[j].witness) = 2

\* C28: a base transaction with a version other than 2 is refused with
\* InvalidVersion, one with version 2 and a lock time other than 0 with
\* InvalidLocktime, whatever the signer would have answered; every
\* transaction that is accepted comes out in the shape of a proof
C28_ProofCreatedShape ==
    (pc = "applied" /\ st.k = "base")
    => /\ (st.x.version # 2
             => result = RErr(Protocol(InvalidProof("InvalidVersion", -1))))
       /\ (st.x.version = 2 /\ st.x.lock_time # 0
             => result = RErr(Protocol(InvalidProof("InvalidLocktime", -1))))
       /\ (result.ok => ProofShaped(st.x, result.v))

\* a base transaction whose input came with a script_sig and a witness was
\* accepted
C28_Witness ==
    /\ pc = "applied"
    /\ st.k = "base"
    /\ result.ok
    /\ ~ScriptIsEmpty(st.x.input[1].script_sig)

\* the witness w holds a signature that verifies for input i of tx, whose
\* previous output is prev_out
ValidSignature(tx, i, prev_out) ==
    /\ Len(tx.input[i + 1].witness) >= 2
    /\ VerifyWitness(tx.input[i + 1].witness[1], tx.input[i + 1].witness[2],
                     SighashAll(tx, i, P2wpkhScriptCode(prev_out.script_pubkey),
                                prev_out.value))

\* the error that applies to input i of tx ("" when none does)
Defect(tx, i, o) ==
    LET po == tx.input[i + 1].previous_output
        outs == ChainTx(po.txid).output
    IN IF po.vout >= Len(outs) THEN "MissingUTXO"
       ELSE IF ~IsV0P2wpkh(outs[po.vout + 1].script_pubkey) THEN "InvalidInputType"
       ELSE IF po \in o.spent THEN "InputIsSpent"
       ELSE IF ~ValidSignature(tx, i, outs[po.vout + 1]) THEN "InvalidInputSignature"
       ELSE ""

\* the error that applies to the version, lock time and output of tx
HeaderDefect(tx) ==
    IF tx.version # 2 THEN "InvalidVersion"
    ELSE IF tx.lock_time # 0 THEN "InvalidLocktime"
    ELSE IF \/ Len(tx.output) # 1
            \/ tx.output[1].value # ProofOutputValue
            \/ ~ScriptIsEmpty(tx.output[1].script_pubkey)
         THEN "InvalidProofOutput"
    ELSE ""

\* the inputs of tx an error applies to
Failing(tx, o) == {i \in 0..(Len(tx.input) - 1) : Defect(tx, i, o) # ""}
Lowest(S) == CHOOSE i \in S : \A j \in S : i <= j

\* a validation has been asked for and the chain answered every question
ValidationAnswered ==
    /\ pc = "applied"
    /\ st.k = "proof"
    /\ ~st.o.getTxErr
    /\ ~st.o.unspentErr

\* C29: when the chain answers, the validation returns the first error that
\* applies, in the order InvalidVersion, InvalidLocktime, InvalidProofOutput,
\* then for the lowest input an error applies to the first of MissingUTXO,
\* InvalidInputType, InputIsSpent, InvalidInputSignature with that index; it
\* accepts the transaction exactly when no error applies
C29_FirstErrorInOrder ==
    ValidationAnswered =>
        result = IF HeaderDefect(st.x) # ""
                    THEN RErr(Protocol(InvalidProof(HeaderDefect(st.x), -1)))
                 ELSE IF Failing(st.x, st.o) # {}
                    THEN RErr(Protocol(InvalidProof(
                              Defect(st.x, Lowest(Failing(st.x, st.o)), st.o),
                              Lowest(Failing(st.x, st.o)))))
                 ELSE ROk(st.x)

\* C30: when the first input an error applies to holds no valid signature,
\* the validation returns InvalidInputSignature with its index as an error
\* value, and no witness makes the validation panic
C30_BadSignatureIsAnError ==
    (ValidationAnswered /\ HeaderDefect(st.x) = "" /\ Failing(st.x, st.o) # {})
    => /\ ~result.panic
       /\ (Defect(st.x, Lowest(Failing(st.x, st.o)), st.o) = "InvalidInputSignature"
             => result = RErr(Protocol(InvalidProof("InvalidInputSignature",
                                                    Lowest(Failing(st.x, st.o))))))

\* the index in the bundle of the witness of input i, the receiver's input
\* being at index rii
BundleIndex(i, rii) == IF i < rii THEN i ELSE i - 1

\* input i of the adopted transaction tx carries the witness the bundle holds
\* for it
CarriesBundled(tx, i, rii, bundle) ==
    /\ BundleIndex(i, rii) < Len(bundle)
    /\ tx.input[i + 1].witness = Deserialize(bundle[BundleIndex(i, rii) + 1])

\* C31: when the adoption of a bundle succeeds, every input other than the
\* receiver's carries the witness parsed from the bundle at its rank among
\* these inputs, so none keeps the witness it had in the proof transaction
\* whatever the length of the bundle, and the receiver's input has no witness
C31_EveryWitnessReplaced ==
    (pc = "applied" /\ st.k = "adopt" /\ result.ok)
    => /\ result.v.receiver_input_index = st.x.ft.receiver_input_index
       /\ result.v.transaction.input[st.x.ft.receiver_input_index + 1].witness = <<>>
       /\ \A i \in 0..(Len(result.v.transaction.input) - 1) :
             i # st.x.ft.receiver_input_index
             => CarriesBundled(result.v.transaction, i, st.x.ft.receiver_input_index,
                               st.x.witnesses)

\* the construction on meta gets as far as the checks of the indices: the
\* chain answers, the sender's inputs cover the fees and the amount, the
\* receiver's previous output exists and no addition panics
ReachesIndexChecks(meta, o) ==
    /\ ~o.getTxErr
    /\ ~o.checked
    /\ SenderInputValueFrom(meta.tx, 0, 0, o).ok
    /\ ~Short(SenderInputValueFrom(meta.tx, 0, 0, o), meta)
    /\ meta.receiver_txin.previous_output.vout
          < Len(ChainTx(meta.receiver_txin.previous_output.txid).output)

\* the receiver's input has the final sequence, no script_sig and no witness
WellFormedTxin(txin) ==
    /\ txin.sequence = SeqFinal
    /\ ScriptIsEmpty(txin.script_sig)
    /\ txin.witness = <<>>

\* C32: a construction that gets as far as the indices refuses a
\* receiver_output_index above 1 with InvalidReceiverOutputIndex, and, the
\* receiver's input being well formed, refuses a receiver_input_index above
\* the number of proof inputs with InvalidReceiverInputIndex; it accepts
\* exactly the metas with receiver_output_index <= 1 and receiver_input_index
\* <= the number of proof inputs (equal appends), and a refusal is an error
\* value that carries no transaction
C32_IndexBounds ==
    (UnsignedAsked /\ ReachesIndexChecks(st.x, st.o))
    => /\ ~result.panic
       /\ (st.x.receiver_output_index > 1
             => result = RErr(Protocol(InvalidFinalTransaction("InvalidReceiverOutputIndex"))))
       /\ (result.ok => /\ st.x.receiver_output_index <= 1
                        /\ st.x.receiver_input_index <= Len(st.x.tx.input))
       /\ (st.x.receiver_output_index <= 1 /\ WellFormedTxin(st.x.receiver_txin)
             => /\ (st.x.receiver_input_index > Len(st.x.tx.input)
                      => result = RErr(Protocol(InvalidFinalTransaction(
                                                    "InvalidReceiverInputIndex"))))
                /\ (st.x.receiver_input_index <= Len(st.x.tx.input) => result.ok))

\* a receiver_input_index one past the append position was refused, the
\* receiver_output_index being 1
C32_Witness ==
    /\ UnsignedAsked
    /\ st.x.receiver_output_index = 1
    /\ st.x.receiver_input_index = Len(st.x.tx.input) + 1
    /\ result = RErr(Protocol(InvalidFinalTransaction("InvalidReceiverInputIndex")))

\* the transaction signed differs from the transaction tx it was made from
\* in the witness of input i only, which is the signer's for that input
SignedOnlyAt(tx, i, signed) ==
    /\ signed.version = tx.version
    /\ signed.lock_time = tx.lock_time
    /\ signed.output = tx.output
    /\ Len(signed.input) = Len(tx.input)
    /\ \A j \in 1..Len(tx.input) :
          IF j = i + 1
          THEN /\ signed.input[j] = [tx.input[j] EXCEPT !.witness = signed.input[j].witness]
               /\ signed.input[j].witness = SignedWitness(ReceiverSigner, tx, i)
          ELSE signed.input[j] = tx.input[j]

\* C33: the receiver's signing asks the signer for the input at
\* receiver_input_index and for no other: in its result that input carries
\* the signer's witness, every other input has the witness and the
\* script_sig it had, the outputs, the version and the lock time are the
\* same, and receiver_input_index is carried through
C33_SignsReceiverInputOnly ==
    (pc = "applied" /\ st.k = "sign" /\ result.ok)
    => /\ result.v.receiver_input_index = st.x.receiver_input_index
       /\ SignedOnlyAt(st.x.transaction, st.x.receiver_input_index, result.v.transaction)

\* a transaction of two signed sender inputs was signed by the receiver on
\* the input between them
C33_Witness ==
    /\ pc = "applied"
    /\ st.k = "sign"
    /\ result.ok
    /\ st.x.receiver_input_index = 1
    /\ Len(st.x.transaction.input) = 3
    /\ st.x.transaction.input[1].witness[1].k = "sig"
    /\ result.v.transaction.input[2].witness # <<>>

\* the sender has answered a candidate list with a Witnesses request
WitnessesEmitted ==
    /\ pc = "applied"
    /\ st.k = "client"
    /\ result.kind = "some"
    /\ result.out.m = "WITNESSES"

\* the final transaction a sender whose base transaction is base, paying its
\* output roi, signs for the candidate utxo: the inputs of base without
\* script_sig and witness followed by the candidate, the change and the
\* receiver's output, the latter at roi
CandidateTx(base, roi, utxo, o) ==
    LET change == TxOut(SumFrom([j \in 1..Len(base.input) |-> PrevValue(base.input[j], o)], 1)
                          - 5000 - base.output[roi + 1].value,
                        base.output[IF roi = 0 THEN 2 ELSE 1].script_pubkey)
        rout == TxOut(base.output[roi + 1].value
                        + PrevValue([previous_output |-> utxo], o),
                      base.output[roi + 1].script_pubkey)
    IN Tx(2, 0,
          [j \in 1..(Len(base.input) + 1) |->
              IF j <= Len(base.input)
              THEN TxIn(base.input[j].previous_output, base.input[j].sequence,
                        EmptyScript, <<>>)
              ELSE TxIn(utxo, SeqFinal, EmptyScript, <<>>)],
          IF roi = 0 THEN <<rout, change>> ELSE <<change, rout>>)

\* bundle holds, for each input of base in order, the sender's signature of
\* the transaction tx on that input, and nothing else
BundleSigns(bundle, base, tx) ==
    /\ Len(bundle) = Len(base.input)
    /\ \A j \in 1..Len(base.input) :
          bundle[j] = WitnessWrapper(SignedWitness(SenderSigner, tx, j - 1))

\* the transaction signed is tx with witnesses on the inputs before the
\* last and none on the last: no script_sig, and nothing else differs
SenderSignedOf(signed, tx) ==
    /\ [signed EXCEPT !.input = [j \in 1..Len(signed.input) |->
                                    [signed.input[j] EXCEPT !.witness = <<>>]]] = tx
    /\ signed.input[Len(signed.input)].witness = <<>>
    /\ \A j \in 1..(Len(signed.input) - 1) : Len(signed.input[j].witness) = 2

\* C34: the Witnesses request the sender emits holds one bundle per candidate
\* of the list it answers, in the list's order and whatever its length; each
\* bundle holds one witness per sender input in input order and none for the
\* receiver's input, and bundle k is the sender's signing of the final
\* transaction whose receiver input is the k-th candidate, in which every
\* script_sig is empty and the receiver's input has no witness
C34_BundlePerCandidate ==
    WitnessesEmitted =>
        /\ Len(result.out.witnesses) = Len(st.x.message.utxos)
        /\ \A k \in 1..Len(st.x.message.utxos) :
              BundleSigns(result.out.witnesses[k], st.x.cfg.base_transaction,
                          CandidateTx(st.x.cfg.base_transaction,
                                      st.x.cfg.receiver_output_index,
                                      st.x.message.utxos[k], st.o))
        /\ \A k \in 1..Len(st.x.message.utxos) :
              SenderSignedOf(SenderLocal(st.x.cfg, st.x.message.utxos[k]),
                             CandidateTx(st.x.cfg.base_transaction,
                                         st.x.cfg.receiver_output_index,
                                         st.x.message.utxos[k], st.o))

\* a sender with two inputs has answered a list of NPositions candidates
C34_Witness ==
    /\ WitnessesEmitted
    /\ Len(st.x.cfg.base_transaction.input) = 2
    /\ Len(result.out.witnesses) = NPositions
    /\ Len(result.out.witnesses[NPositions]) = 2

\* the final transaction built and signed from the fields of the Witnesses
\* request w for the candidate utxo, by a sender whose configuration is c
BuiltFrom(w, c, utxo) ==
    FinalSenderSignedBySigner(
        FinalUnsigned(
            FinalTransactionMeta(
                ProofCreated(c.base_transaction, SenderSigner, OracleOk).v, w.fees,
                w.change_script, TxIn(utxo, SeqFinal, EmptyScript, <<>>),
                w.receiver_input_position,
                c.base_transaction.output[c.receiver_output_index + 1],
                w.receiver_output_position),
            OracleOk).v,
        SenderSigner, OracleOk).v.transaction

\* C35: for a base transaction of at least two outputs, the Witnesses
\* request carries fees 5000, receiver_input_position the number of base
\* inputs, receiver_output_position the configured receiver_output_index and
\* change_script the script of base output 1 when that index is 0 and of
\* base output 0 otherwise; the witnesses it carries for each candidate are
\* those of the final transaction built from these very values
C35_RequestFields ==
    (WitnessesEmitted /\ Len(st.x.cfg.base_transaction.output) >= 2)
    => /\ result.out.fees = 5000
       /\ result.out.receiver_input_position = Len(st.x.cfg.base_transaction.input)
       /\ result.out.receiver_output_position = st.x.cfg.receiver_output_index
       /\ result.out.change_script =
             st.x.cfg.base_transaction.output[
                 IF st.x.cfg.receiver_output_index = 0 THEN 2 ELSE 1].script_pubkey
       /\ \A k \in 1..Len(st.x.message.utxos) :
             result.out.witnesses[k] =
                 [j \in 1..Len(st.x.cfg.base_transaction.input) |->
                     WitnessWrapper(BuiltFrom(result.out, st.x.cfg,
                                              st.x.message.utxos[k]).input[j].witness)]

\* a sender of two inputs that pays its output 0 has answered a list of
\* NPositions candidates
C35_Witness ==
    /\ WitnessesEmitted
    /\ st.x.cfg.receiver_output_index = 0
    /\ Len(st.x.cfg.base_transaction.input) = 2
    /\ Len(st.x.message.utxos) = NPositions
    /\ result.out.change_script = ChangeScript

\* the transactions the receiver's transition handed to Blockchain::broadcast
Broadcasts(tr) == {tr.ev[i].x : i \in {j \in 1..Len(tr.ev) : tr.ev[j].k = "broadcast"}}

\* the transaction tx spends our_utxo in the input at index rip and in no
\* other, and its output at index rop pays expected_script the
\* expected_amount plus the value prev of our_utxo's previous output
PaysReceiver(tx, rip, rop, prev) ==
    /\ {j \in 1..Len(tx.input) : tx.input[j].previous_output = OurUtxo} = {rip + 1}
    /\ rop < Len(tx.output)
    /\ tx.output[rop + 1].script_pubkey = ExpectedScript
    /\ ~Overflows(ExpectedAmount, prev)
    /\ tx.output[rop + 1].value = ExpectedAmount + prev

\* C36: whatever fees, change_script, positions and witnesses the Witnesses
\* request carries, a transaction the receiver broadcasts spends our_utxo in
\* exactly one input, the one at receiver_input_position, and its output at
\* receiver_output_position pays expected_script the value expected_amount
\* plus the value of our_utxo's previous output
C36_ReceiverIsPaid ==
    (pc = "applied" /\ st.k = "server")
    => \A tx \in Broadcasts(result) :
          PaysReceiver(tx, st.x.message.receiver_input_position,
                       st.x.message.receiver_output_position,
                       PrevValue([previous_output |-> OurUtxo], st.o))

\* C37: a transition of the receiver that returns an error, a ProtocolError
\* or an error of the chain or of the signer, leaves the receiver's state as
\* it was: the marker, the proof, the candidate list, the position and the
\* final transaction
C37_ReceiverErrorKeepsState ==
    [][role = "server" /\ last'.tkind = "err" => st' = st]_vars

\* a broadcast has failed in ClientProof and the receiver is in ClientProof
C37_Witness ==
    /\ role = "server"
    /\ last.tkind = "err"
    /\ last.terr = ErrChain
    /\ \E i \in 1..Len(last.ev) : last.ev[i].k = "broadcast" /\ ~last.ev[i].ok
    /\ st.s = "ClientProof"

\* C38: a transition of the sender that returns an error leaves the
\* sender's state as it was, and the sender is in ServerVersion only if it
\* has emitted a Proof request
C38_SenderErrorKeepsState ==
    /\ [][role = "client" /\ last'.tkind = "err" => st' = st]_vars
    /\ [](role = "client" /\ st.s = "ServerVersion" => hist.first.m = "PROOF")

=============================================================================
